---------------------------- MODULE Spec2Model ----------------------------
(***************************************************************************)
(* Leak-scenario generation and batch simulation pipeline                  *)
(* (scripts/leak_simulation, scripts/generate_leak_scenarios.py,           *)
(* scripts/train_leak_model.py).                                           *)
(*                                                                         *)
(* The module holds three state machines over one set of variables:        *)
(*   SpecGen    LeakScenarioGenerator.generate and _create_scenario        *)
(*   SpecBatch  the two orchestrators and their scenario workers           *)
(*   SpecLabel  the has_leak labelling of exported rows                    *)
(*                                                                         *)
(* Node identifiers are strings in the program; here a string is the       *)
(* sequence of its characters, so that the float-suffix normalisation      *)
(* str(int(float(x))) can be computed.                                     *)
(*                                                                         *)
(* Hours are floats in the program; here an hour value is an integer       *)
(* number of ticks, TicksPerHour ticks to the hour, and int(h * 3600) is   *)
(* the truncating division ToSeconds.                                      *)
(***************************************************************************)
EXTENDS Integers, Sequences, FiniteSets, TLC

VARIABLES
    \* ---- LeakScenarioGenerator ----
    gen_cfg,        \* constructor and generate() arguments
    gen_pc,         \* position inside generate()
    n_scenarios,    \* generate()'s local n_scenarios (may be raised)
    node_list,      \* generate()'s shuffled node_list
    scenarios,      \* generate()'s scenarios list: <<scenario_id, leak_node>> of each
    scenario,       \* the LeakScenario _create_scenario returned last
    create_args,    \* the <<scenario_id, leak_node>> that call was given
    \* ---- orchestrators and workers ----
    b_cfg,          \* the batch: entry point, parallel.enabled, template, scenario records
    b_pc,           \* position of the coordinator
    results,        \* results[i]: what job i returned to the coordinator
    joblog,         \* joblog[i]: what happened inside job i (not program state)
    files,          \* the paths that exist under out_dir
    summary,        \* the batch summary, once reported
    loader,         \* the coordinator's ModelLoader: wn and model_bytes
    loaded,         \* what its load_and_validate returned: success and message
    inp_log,        \* how often the source file was loaded, parsed, serialized
    heap,           \* the network objects: the loaders' networks and the clones
    clones,         \* clones[i]: the clone job i ran on, as create_model_copy returned it
    \* ---- labelling ----
    lab_cfg,        \* the labelling run: the records of metadata.csv
    lab_pc,         \* position of the labelling script
    leak_lookup,    \* leak_lookup[scenario_id]: the leaks to match rows against
    has_leak,       \* has_leak[row]: the label column of df_ml
    processed,      \* scenario groups labelled so far
    \* ---- one operation called on its own ----
    call_args,      \* the operation and its arguments
    call_pc,        \* "call" before the call, "returned" after it
    call_ret        \* what the call returned

vars == <<gen_cfg, gen_pc, n_scenarios, node_list, scenarios, scenario, create_args,
          b_cfg, b_pc, results, joblog, files, summary,
          loader, loaded, inp_log, heap, clones,
          lab_cfg, lab_pc, leak_lookup, has_leak, processed,
          call_args, call_pc, call_ret>>

batchVars == <<b_cfg, b_pc, results, joblog, files, summary,
               loader, loaded, inp_log, heap, clones>>

loadVars == <<loader, loaded, inp_log, heap, clones>>

labVars == <<lab_cfg, lab_pc, leak_lookup, has_leak, processed>>

genVars == <<gen_cfg, gen_pc, n_scenarios, node_list, scenarios, scenario, create_args>>

callVars == <<call_args, call_pc, call_ret>>

-----------------------------------------------------------------------------
(* Generic helpers *)

Min(a, b) == IF a <= b THEN a ELSE b

Max(a, b) == IF a >= b THEN a ELSE b

Range(s) == {s[i] : i \in 1..Len(s)}

\* Python's int(): truncation towards zero of n / d, d > 0.
IntTrunc(n, d) == IF n >= 0 THEN n \div d ELSE -((-n) \div d)

\* Sequences of length k of pairwise distinct indices of 1..n
RECURSIVE DistinctIndexSeqs(_, _)
DistinctIndexSeqs(n, k) ==
    IF k = 0 THEN {<<>>}
    ELSE {Append(p, i) : p \in DistinctIndexSeqs(n, k - 1), i \in 1..n} \
         {q \in {Append(p, i) : p \in DistinctIndexSeqs(n, k - 1), i \in 1..n} :
             \E a, b \in 1..k : a # b /\ q[a] = q[b]}

\* Number of entries of s different from x
RECURSIVE CountOther(_, _)
CountOther(s, x) ==
    IF s = <<>> THEN 0
    ELSE (IF Head(s) # x THEN 1 ELSE 0) + CountOther(Tail(s), x)

-----------------------------------------------------------------------------
(* Bounds of the model *)

\* resolution of an hour value: ticks per second
TicksPerSecond == 2

\* longest simulated duration, in hours
MaxSimHours == 3

\* largest n_scenarios handed to generate()
MaxScenarios == 4

\* largest leaks_per_scenario
MaxLeaksPerScenario == 3

SecondsPerHour == 3600

TicksPerHour == SecondsPerHour * TicksPerSecond

Hours(h) == h * TicksPerHour

-----------------------------------------------------------------------------
(* Node identifiers *)

N1 == <<"1">>
N2 == <<"2">>
N3 == <<"3">>

\* The eligible node lists handed to the generator (config node_list after
\* validation, or all junctions).  A configured list is passed on as it is,
\* so an entry may repeat.
LeakNodeLists ==
    { <<>>, <<N1>>, <<N1, N2>>, <<N1, N2, N3>>, <<N1, N2, N2>> }

-----------------------------------------------------------------------------
(* random *)

\* random.uniform(a, b) = a + (b - a) * random(): a value between the two
\* arguments, whichever is the smaller.  The draws enumerated are both ends
\* and, in between, every whole hour and the tick after it.
Uniform(a, b) ==
    LET lo == Min(a, b)
        hi == Max(a, b)
    IN  {lo, hi} \cup
        {x \in {Hours(k) + o : k \in 0..MaxSimHours, o \in {0, 1}} : lo <= x /\ x <= hi}

\* random.sample(population, k): k entries at pairwise distinct positions,
\* in any order; ValueError when k exceeds the population.
SampleRaises(population, k) == k > Len(population)

Sample(population, k) ==
    {[i \in 1..k |-> population[p[i]]] : p \in DistinctIndexSeqs(Len(population), k)}

\* random.shuffle(x): any reordering of the entries
Shuffle(s) ==
    {[i \in 1..Len(s) |-> s[p[i]]] : p \in DistinctIndexSeqs(Len(s), Len(s))}

-----------------------------------------------------------------------------
(* LeakScenarioGenerator._create_scenario *)

\* int(start_h * 3600), int(duration_h * 3600)
ToSeconds(h) == IntTrunc(h * SecondsPerHour, TicksPerHour)

\* upper end of the start draw: min(start_h_max, simulation_duration_h - 1)
StartUpper(tr, simulation_duration_h) ==
    Min(tr.start_h_max, simulation_duration_h - Hours(1))

\* upper end of the duration draw: min(duration_h_max, simulation_duration_h - start_h)
MaxDuration(tr, simulation_duration_h, start_h) ==
    Min(tr.duration_h_max, simulation_duration_h - start_h)

\* One leak's time window: the start and duration draws and their conversion.
Window(start_h, duration_h) ==
    [start_time_s |-> ToSeconds(start_h),
     duration_s   |-> ToSeconds(duration_h),
     end_time_s   |-> ToSeconds(start_h) + ToSeconds(duration_h)]

LeakWindows(tr, simulation_duration_h) ==
    UNION { { Window(start_h, duration_h) :
                duration_h \in Uniform(tr.duration_h_min,
                                       MaxDuration(tr, simulation_duration_h, start_h)) } :
            start_h \in Uniform(tr.start_h_min, StartUpper(tr, simulation_duration_h)) }

\* available_nodes = [n for n in self.leak_nodes if n != leak_node]
AvailableNodes(leak_nodes, leak_node) ==
    SelectSeq(leak_nodes, LAMBDA n : n # leak_node)

\* n_additional without the cap by the nodes available
NAdditionalUncapped(leaks_per_scenario, available_nodes) ==
    leaks_per_scenario - 1

\* n_additional = min(self.leaks_per_scenario - 1, len(available_nodes))
NAdditional(leaks_per_scenario, available_nodes) ==
    Min(leaks_per_scenario - 1, Len(available_nodes))

NoScenario == [kind |-> "none"]

\* _create_scenario left with an exception
Raised == [kind |-> "raised"]

SingleLeakScenario(scenario_id, leak_node, w) ==
    [kind |-> "scenario", scenario_id |-> scenario_id, leak_node |-> leak_node,
     start_time_s |-> w.start_time_s, duration_s |-> w.duration_s,
     end_time_s |-> w.end_time_s,
     leak_nodes |-> <<>>, leak_start_times_s |-> <<>>,
     leak_durations_s |-> <<>>, leak_end_times_s |-> <<>>]

MultiLeakScenario(scenario_id, all_leak_nodes, ws) ==
    [kind |-> "scenario", scenario_id |-> scenario_id, leak_node |-> all_leak_nodes[1],
     start_time_s |-> ws[1].start_time_s, duration_s |-> ws[1].duration_s,
     end_time_s |-> ws[1].end_time_s,
     leak_nodes |-> all_leak_nodes,
     leak_start_times_s |-> [i \in 1..Len(ws) |-> ws[i].start_time_s],
     leak_durations_s   |-> [i \in 1..Len(ws) |-> ws[i].duration_s],
     leak_end_times_s   |-> [i \in 1..Len(ws) |-> ws[i].end_time_s]]

\* The LeakScenario objects _create_scenario(scenario_id, leak_node,
\* simulation_duration_h) can return, over every random draw.
CreateScenario(cfg, scenario_id, leak_node) ==
    IF cfg.leaks_per_scenario = 1
    THEN { SingleLeakScenario(scenario_id, leak_node, w) :
             w \in LeakWindows(cfg.leak_time_range, cfg.simulation_duration_h) }
    ELSE LET available_nodes == AvailableNodes(cfg.leak_nodes, leak_node)
             n_additional == NAdditional(cfg.leaks_per_scenario, available_nodes)
         IN  IF n_additional > 0 /\ SampleRaises(available_nodes, n_additional)
             THEN {Raised}
             ELSE { MultiLeakScenario(scenario_id, <<leak_node>> \o additional_nodes, ws) :
                      additional_nodes \in (IF n_additional > 0
                                            THEN Sample(available_nodes, n_additional)
                                            ELSE {<<>>}),
                      ws \in [1..(1 + Max(n_additional, 0)) ->
                                LeakWindows(cfg.leak_time_range, cfg.simulation_duration_h)] }

-----------------------------------------------------------------------------
(* LeakScenarioGenerator.generate *)

\* leak_time_range configurations, in ticks: starts from 0 h or just past 1 h
\* up to 2 h, durations from 1 h or 2 h up to 2 h.
LeakTimeRanges ==
    { [start_h_min |-> a, start_h_max |-> b, duration_h_min |-> c, duration_h_max |-> d] :
        a \in {Hours(0), Hours(1) + 1}, b \in {Hours(2)},
        c \in {Hours(1), Hours(2)}, d \in {Hours(2)} }

\* the leak_time_range of the batches generate() is run on
BatchTimeRange ==
    [start_h_min |-> Hours(0), start_h_max |-> Hours(1),
     duration_h_min |-> Hours(1), duration_h_max |-> Hours(1)]

SimulationDurations == {Hours(MaxSimHours)}

\* arguments of a generate() call
GenConfigs ==
    [leak_nodes : LeakNodeLists,
     leaks_per_scenario : 1..MaxLeaksPerScenario,
     leak_time_range : {BatchTimeRange},
     simulation_duration_h : SimulationDurations,
     n_scenarios : 0..MaxScenarios,
     ensure_all_nodes : BOOLEAN]

\* arguments of a direct _create_scenario call
CreateConfigs ==
    [leak_nodes : LeakNodeLists \ {<<>>},
     leaks_per_scenario : 1..MaxLeaksPerScenario,
     leak_time_range : LeakTimeRanges,
     simulation_duration_h : SimulationDurations,
     n_scenarios : {1},
     ensure_all_nodes : {FALSE}]

Idle == [kind |-> "idle"]

NoArgs == <<0, <<>>>>

\* no batch is running
BatchIdle ==
    /\ b_cfg = Idle /\ b_pc = "idle" /\ results = <<>> /\ joblog = <<>>
    /\ files = {} /\ summary = Idle
    /\ loader = Idle /\ loaded = Idle /\ inp_log = Idle /\ heap = <<>> /\ clones = <<>>

\* no labelling is running
LabIdle ==
    /\ lab_cfg = Idle /\ lab_pc = "idle" /\ leak_lookup = <<>> /\ has_leak = <<>>
    /\ processed = 0

\* no operation is called on its own
CallIdle == call_args = Idle /\ call_pc = "idle" /\ call_ret = Idle

InitGen ==
    /\ gen_cfg \in GenConfigs
    /\ gen_pc = "start"
    /\ n_scenarios = gen_cfg.n_scenarios
    /\ node_list = <<>>
    /\ scenarios = <<>>
    /\ scenario = NoScenario
    /\ create_args = NoArgs
    /\ BatchIdle
    /\ LabIdle
    /\ CallIdle

\* scenario = self._create_scenario(scenario_id, leak_node, ...);
\* scenarios.append(scenario), or the exception leaves generate()
CreateAndAppend(scenario_id, leak_node) ==
    /\ create_args' = <<scenario_id, leak_node>>
    /\ \E s \in CreateScenario(gen_cfg, scenario_id, leak_node) :
         /\ scenario' = s
         /\ IF s.kind = "raised"
            THEN gen_pc' = "raised" /\ UNCHANGED scenarios
            ELSE /\ scenarios' = Append(scenarios, <<s.scenario_id, s.leak_node>>)
                 /\ UNCHANGED gen_pc

\* lines 98-112: the n_scenarios raise and the shuffle
GenerateBegin ==
    /\ gen_pc = "start"
    /\ IF gen_cfg.ensure_all_nodes
       THEN /\ n_scenarios' = Max(n_scenarios, Len(gen_cfg.leak_nodes))
            /\ node_list' \in Shuffle(gen_cfg.leak_nodes)
            /\ gen_pc' = "phase1"
       ELSE /\ UNCHANGED <<n_scenarios, node_list>>
            /\ gen_pc' = "phase2"
    /\ UNCHANGED <<gen_cfg, scenarios, scenario, create_args, batchVars, labVars, callVars>>

\* the slice node_list[:n_scenarios] Phase 1 iterates over
Phase1Nodes == SubSeq(node_list, 1, Min(n_scenarios, Len(node_list)))

\* lines 113-116: one iteration of Phase 1
Phase1Step ==
    /\ gen_pc = "phase1"
    /\ Len(scenarios) < Len(Phase1Nodes)
    /\ LET i == Len(scenarios)
       IN  CreateAndAppend(i + 1, Phase1Nodes[i + 1])
    /\ UNCHANGED <<gen_cfg, n_scenarios, node_list, batchVars, labVars, callVars>>

\* Phase 1's loop is exhausted
Phase1End ==
    /\ gen_pc = "phase1"
    /\ Len(scenarios) = Len(Phase1Nodes)
    /\ gen_pc' = "phase2"
    /\ UNCHANGED <<gen_cfg, n_scenarios, node_list, scenarios, scenario, create_args,
                   batchVars, labVars, callVars>>

\* lines 119-125: one iteration of Phase 2 (remaining counts down from
\* n_scenarios - len(scenarios)); random.choice picks any entry and raises
\* IndexError on an empty list
Phase2Step ==
    /\ gen_pc = "phase2"
    /\ Len(scenarios) < n_scenarios
    /\ IF gen_cfg.leak_nodes = <<>>
       THEN gen_pc' = "raised" /\ UNCHANGED <<scenarios, scenario, create_args>>
       ELSE \E k \in 1..Len(gen_cfg.leak_nodes) :
               CreateAndAppend(Len(scenarios) + 1, gen_cfg.leak_nodes[k])
    /\ UNCHANGED <<gen_cfg, n_scenarios, node_list, batchVars, labVars, callVars>>

\* lines 127-132: the coverage log line divides by len(self.leak_nodes);
\* return scenarios
GenerateReturn ==
    /\ gen_pc = "phase2"
    /\ Len(scenarios) >= n_scenarios
    /\ gen_pc' = IF gen_cfg.ensure_all_nodes /\ Len(gen_cfg.leak_nodes) = 0
                 THEN "raised" ELSE "done"
    /\ UNCHANGED <<gen_cfg, n_scenarios, node_list, scenarios, scenario, create_args,
                   batchVars, labVars, callVars>>

NextGen == GenerateBegin \/ Phase1Step \/ Phase1End \/ Phase2Step \/ GenerateReturn

SpecGen == InitGen /\ [][NextGen]_vars

-----------------------------------------------------------------------------
(* A direct call generator._create_scenario(1, leak_node, simulation_duration_h) *)

InitCreate ==
    /\ gen_cfg \in CreateConfigs
    /\ gen_pc = "call"
    /\ n_scenarios = 1
    /\ node_list = <<>>
    /\ scenarios = <<>>
    /\ scenario = NoScenario
    /\ create_args = NoArgs
    /\ BatchIdle
    /\ LabIdle
    /\ CallIdle

CreateCall ==
    /\ gen_pc = "call"
    /\ \E k \in 1..Len(gen_cfg.leak_nodes) :
         /\ create_args' = <<1, gen_cfg.leak_nodes[k]>>
         /\ scenario' \in CreateScenario(gen_cfg, 1, gen_cfg.leak_nodes[k])
    /\ gen_pc' = IF scenario'.kind = "raised" THEN "raised" ELSE "returned"
    /\ UNCHANGED <<gen_cfg, n_scenarios, node_list, scenarios, batchVars, labVars, callVars>>

NextCreate == CreateCall

SpecCreate == InitCreate /\ [][NextCreate]_vars

-----------------------------------------------------------------------------
(* Node identifiers with a float suffix: str(int(float(x))) if '.' in str(x) *)

Digits == {"0", "1", "2", "3", "4", "5", "6", "7", "8", "9"}

\* '.' in str(x)
HasDot(x) == \E i \in 1..Len(x) : x[i] = "."

\* float(x) accepts x.  Over the characters used here: digits around one
\* dot, at least one digit.
IsFloatLiteral(x) ==
    /\ Cardinality({i \in 1..Len(x) : x[i] = "."}) = 1
    /\ \A i \in 1..Len(x) : x[i] = "." \/ x[i] \in Digits
    /\ \E i \in 1..Len(x) : x[i] \in Digits

RECURSIVE StripLeadingZeros(_)
StripLeadingZeros(x) ==
    IF Len(x) > 1 /\ x[1] = "0" THEN StripLeadingZeros(Tail(x)) ELSE x

\* str(int(float(x))) of a float literal: the digits before the dot,
\* without leading zeros, "0" when there are none
IntOfFloat(x) ==
    LET dot == CHOOSE i \in 1..Len(x) : x[i] = "."
        whole == SubSeq(x, 1, dot - 1)
    IN  IF whole = <<>> THEN <<"0">> ELSE StripLeadingZeros(whole)

\* the normalisation raises ValueError: a dot, and not a float literal
NormalizeRaises(x) == HasDot(x) /\ ~IsFloatLiteral(x)

\* str(int(float(x))) if '.' in str(x) else str(x)
Normalize(x) == IF HasDot(x) THEN IntOfFloat(x) ELSE x

-----------------------------------------------------------------------------
(* The template network *)

J42  == <<"4", "2">>
J42F == <<"4", "2", ".", "0">>
JD1  == <<"J", ".", "1">>
R7   == <<"7">>

\* wn.junction_name_list
Junctions == {J42, J42F, JD1}

\* wn.node_name_list: the junctions and one reservoir
NodeNames == Junctions \cup {R7}

-----------------------------------------------------------------------------
(* ModelLoader: load_and_validate, _save_model_bytes, create_model_copy *)

None == [kind |-> "None"]

\* required_sections
RequiredSections == {"[TITLE]", "[JUNCTIONS]", "[PIPES]", "[PATTERNS]"}

\* sections_count below which the file is rejected
MinSections == 5

\* what the source file says about times and patterns
InpNetwork == [duration |-> "inp", multipliers |-> "inp"]

\* a source file that loads: it has exactly MinSections '[' characters
ValidInp ==
    [exists |-> TRUE, readable |-> TRUE, sections |-> RequiredSections,
     brackets |-> MinSections, parses |-> TRUE, network |-> InpNetwork]

\* the source files: the valid one, a missing one, one that cannot be
\* decoded, one for each required section left out, one with all required
\* sections and no other '[', one the Engine cannot parse
MissingInp == [ValidInp EXCEPT !.exists = FALSE]

InpFiles ==
    {ValidInp, MissingInp, [ValidInp EXCEPT !.readable = FALSE],
     [ValidInp EXCEPT !.brackets = MinSections - 1], [ValidInp EXCEPT !.parses = FALSE]}
    \cup { [ValidInp EXCEPT !.sections = RequiredSections \ {sec}] : sec \in RequiredSections }

\* wntr.network.WaterNetworkModel(path): a new network object without leaks
ParseInp(content) ==
    [duration |-> content.duration, multipliers |-> content.multipliers, leaks |-> {}]

\* wntr.network.io.write_inpfile(wn, path) and the bytes read back: the
\* time options and the patterns; leaks are not part of the file format
WriteInp(wn) == [duration |-> wn.duration, multipliers |-> wn.multipliers]

\* a load_and_validate that does not count the section markers
LoadAndValidateUncounted(inp, tmp_ok) ==
    LET failed(message) ==
            [success |-> FALSE, message |-> message, network |-> None,
             model_bytes |-> None, parsed |-> FALSE, serialized |-> FALSE]
    IN  IF ~inp.exists THEN failed("file does not exist")
        ELSE IF ~inp.readable THEN failed("error while loading")
        ELSE IF RequiredSections \ inp.sections # {}
        THEN failed("required sections missing")
        ELSE IF ~inp.parses
        THEN [failed("error while loading with WNTR") EXCEPT !.parsed = TRUE]
        ELSE [success |-> TRUE, message |-> "loaded and validated",
              network |-> ParseInp(inp.network),
              model_bytes |-> IF tmp_ok THEN WriteInp(ParseInp(inp.network)) ELSE None,
              parsed |-> TRUE, serialized |-> tmp_ok]

\* load_and_validate() on a loader for this file; tmp_ok: the temporary
\* file of _save_model_bytes can be written.  parsed, serialized: whether
\* the source file was parsed by the Engine and the network serialized.
LoadAndValidate(inp, tmp_ok) ==
    LET failed(message) ==
            [success |-> FALSE, message |-> message, network |-> None,
             model_bytes |-> None, parsed |-> FALSE, serialized |-> FALSE]
    IN  IF ~inp.exists THEN failed("file does not exist")
        ELSE IF ~inp.readable THEN failed("error while loading")
        ELSE IF RequiredSections \ inp.sections # {}
        THEN failed("required sections missing")
        ELSE IF inp.brackets < MinSections THEN failed("few sections")
        ELSE IF ~inp.parses
        THEN [failed("error while loading with WNTR") EXCEPT !.parsed = TRUE]
        ELSE [success |-> TRUE, message |-> "loaded and validated",
              network |-> ParseInp(inp.network),
              model_bytes |-> IF tmp_ok THEN WriteInp(ParseInp(inp.network)) ELSE None,
              parsed |-> TRUE, serialized |-> tmp_ok]

\* references to network objects
TemplateRef == [owner |-> "coordinator", id |-> 0]

WorkerRef(i) == [owner |-> "worker", id |-> i]

CloneRef(i) == [owner |-> "clone", id |-> i]

\* the ModelLoader object after load_and_validate returned r
Loader(r, ref) ==
    [wn |-> IF r.success THEN ref ELSE None, model_bytes |-> r.model_bytes]

\* a create_model_copy that hands out the loader's own network
CreateModelCopyShared(ldr, h, inp, ref) ==
    [ref |-> ldr.wn, network |-> h[ldr.wn], from_source |-> FALSE]

\* create_model_copy(): a new network object read back from model_bytes, or
\* from the source file when there are none
CreateModelCopy(ldr, h, inp, ref) ==
    [ref |-> ref,
     network |-> IF ldr.model_bytes # None
                 THEN ParseInp(ldr.model_bytes) ELSE ParseInp(inp.network),
     from_source |-> ldr.model_bytes = None]

\* what a run does to the network it was given: time options, pattern
\* multipliers, leaks
RunOn(network, log) ==
    [duration |-> "config", multipliers |-> "fixed",
     leaks |-> network.leaks \cup log.injected]

-----------------------------------------------------------------------------
(* Bounds of a batch *)

MaxJobs == 2

\* how many steps of one batch the environment lets fail
MaxFaults == 1

-----------------------------------------------------------------------------
(* LeakScenario.to_dict and the scenario rebuilt from it *)

\* scenario.to_dict(); the leak areas, the discharge coefficient and the
\* *_h copies of the times are left out of the record.
ToDict(sc) ==
    LET result == [scenario_id |-> sc.scenario_id, leak_node |-> sc.leak_node,
                   start_time_s |-> sc.start_time_s, duration_s |-> sc.duration_s,
                   end_time_s |-> sc.end_time_s]
    IN  IF sc.leak_nodes # <<>>
        THEN result @@ [leak_nodes |-> sc.leak_nodes,
                        leak_start_times_s |-> sc.leak_start_times_s,
                        leak_durations_s |-> sc.leak_durations_s,
                        leak_end_times_s |-> sc.leak_end_times_s,
                        n_leaks |-> Len(sc.leak_nodes)]
        ELSE result

\* 'leak_nodes' in scenario_dict and scenario_dict.get('leak_nodes')
HasLeakNodes(scenario_dict) ==
    "leak_nodes" \in DOMAIN scenario_dict /\ scenario_dict.leak_nodes # <<>>

\* LeakScenario(...) rebuilt in a worker; leak_node is the value the
\* single-leak branch passes for the leak node.
ScenarioFromDict(scenario_dict, leak_node) ==
    IF HasLeakNodes(scenario_dict)
    THEN [kind |-> "scenario", scenario_id |-> scenario_dict.scenario_id,
          leak_node |-> scenario_dict.leak_node,
          start_time_s |-> scenario_dict.start_time_s,
          duration_s |-> scenario_dict.duration_s,
          end_time_s |-> scenario_dict.end_time_s,
          leak_nodes |-> scenario_dict.leak_nodes,
          leak_start_times_s |-> scenario_dict.leak_start_times_s,
          leak_durations_s |-> scenario_dict.leak_durations_s,
          leak_end_times_s |-> scenario_dict.leak_end_times_s]
    ELSE SingleLeakScenario(scenario_dict.scenario_id, leak_node,
                            [start_time_s |-> scenario_dict.start_time_s,
                             duration_s |-> scenario_dict.duration_s,
                             end_time_s |-> scenario_dict.end_time_s])

-----------------------------------------------------------------------------
(* One scenario: clone, inject, Engine, extraction *)

\* the steps of a job the environment can make fail
Faults == {"none", "load", "clone", "engine", "extract", "noise",
           "mkdir", "nodes", "pipes"}

FullResults == [nodes |-> "records", pipes |-> "records"]

\* {'nodes': {}, 'pipes': {}, 'timestamps': []}
EmptyResults == [nodes |-> "none", pipes |-> "none"]

NoResults == "None"

\* what happened inside a job: the fault applied, the step that failed
\* ("none" when no step failed), the nodes a leak was added to, whether the
\* Engine ran
JobLog(fault, step, injected, engine) ==
    [fault |-> fault, step |-> step, injected |-> injected, engine |-> engine]

\* the nodes the injection step addresses
LeakTargets(sc) ==
    IF Len(sc.leak_nodes) > 1 THEN sc.leak_nodes ELSE <<sc.leak_node>>

\* the junctions among the names a leak is added to
Injected(names) ==
    {names[i] : i \in {j \in 1..Len(names) : names[j] \in Junctions}}

\* wn.get_node raises KeyError on a name, or the single-leak branch raises
\* ValueError on a node that is not a junction
InjectRaises(sc, names) ==
    \/ \E i \in 1..Len(names) : names[i] \notin NodeNames
    \/ Len(sc.leak_nodes) <= 1 /\ names[1] \notin Junctions

\* LeakSimulator._extract_results normalises the leak node ids inside its
\* own try; on an exception it returns the empty result
ExtractResultsRaises(sc) ==
    IF sc.leak_nodes # <<>>
    THEN \E i \in 1..Len(sc.leak_nodes) : NormalizeRaises(sc.leak_nodes[i])
    ELSE NormalizeRaises(sc.leak_node)

\* LeakSimulator.run_scenario(scenario)
RunScenario(sc, fault) ==
    LET names == LeakTargets(sc)
        failure(step) ==
            [ret |-> [success |-> FALSE, scenario_id |-> sc.scenario_id,
                      error |-> step, results |-> NoResults],
             log |-> JobLog(fault, step, {}, FALSE)]
        emptied == fault = "extract" \/ ExtractResultsRaises(sc)
    IN  IF fault = "clone" THEN failure("clone")
        ELSE IF InjectRaises(sc, names) THEN failure("inject")
        ELSE IF fault = "engine" THEN failure("engine")
        ELSE [ret |-> [success |-> TRUE, scenario_id |-> sc.scenario_id,
                       results |-> IF emptied THEN EmptyResults ELSE FullResults],
              log |-> JobLog(fault, IF emptied THEN "extract" ELSE "none",
                             Injected(names), TRUE)]

\* Simulation._extract_to_dataframe normalises the leak node ids inside its
\* own try; on an exception it returns the empty DataFrame
ExtractToDataframeRaises(sc) ==
    IF Len(sc.leak_nodes) > 1
    THEN \E i \in 1..Len(sc.leak_nodes) : NormalizeRaises(sc.leak_nodes[i])
    ELSE NormalizeRaises(sc.leak_node)

\* Simulation.run(scenario): the DataFrame, or RuntimeError
SimulationRun(sc, fault) ==
    LET raw == LeakTargets(sc)
        failure(step) ==
            [raised |-> TRUE, df |-> NoResults, log |-> JobLog(fault, step, {}, FALSE)]
        names == [i \in 1..Len(raw) |-> Normalize(raw[i])]
        emptied == fault = "extract" \/ ExtractToDataframeRaises(sc)
    IN  IF fault = "clone" THEN failure("clone")
        ELSE IF \E i \in 1..Len(raw) : NormalizeRaises(raw[i]) THEN failure("inject")
        ELSE IF InjectRaises(sc, names) THEN failure("inject")
        ELSE IF fault = "engine" THEN failure("engine")
        ELSE [raised |-> FALSE, df |-> IF emptied THEN "empty" ELSE "records",
              log |-> JobLog(fault, IF emptied THEN "extract" ELSE "none",
                             Injected(names), TRUE)]

-----------------------------------------------------------------------------
(* Files under out_dir *)

File(path, content) == [path |-> path, content |-> content]

\* out_dir/scenario_XXXXX
ScenarioDir(scenario_id) == <<"scenario", scenario_id>>

\* out_dir/scenario_XXXXX/nodes.parquet, pipes.parquet
ScenarioFile(scenario_id, name) == <<"scenario", scenario_id, name>>

\* out_dir/scenario_XXXXX.parquet
ScenarioParquet(scenario_id) == <<"scenario.parquet", scenario_id>>

\* a write that raised leaves nothing or a truncated file
Torn(path, partial) == IF partial THEN {File(path, "partial")} ELSE {}

\* DataExporter.export_scenario(scenario_id, simulation_results, metadata):
\* whether it raised and the paths it created
ExportScenario(scenario_id, simulation_results, fault, partial) ==
    LET dir   == {File(ScenarioDir(scenario_id), "dir")}
        nodes == ScenarioFile(scenario_id, "nodes")
        pipes == ScenarioFile(scenario_id, "pipes")
        has_nodes == simulation_results.nodes = "records"
        has_pipes == simulation_results.pipes = "records"
        nodes_written == IF has_nodes THEN {File(nodes, "complete")} ELSE {}
        pipes_written == IF has_pipes THEN {File(pipes, "complete")} ELSE {}
    IN  IF fault = "mkdir"
        THEN [raised |-> TRUE, files |-> {}]
        ELSE IF fault = "nodes" /\ has_nodes
        THEN [raised |-> TRUE, files |-> dir \cup Torn(nodes, partial)]
        ELSE IF fault = "pipes" /\ has_pipes
        THEN [raised |-> TRUE, files |-> dir \cup nodes_written \cup Torn(pipes, partial)]
        ELSE [raised |-> FALSE, files |-> dir \cup nodes_written \cup pipes_written]

-----------------------------------------------------------------------------
(* The pool workers *)

\* leak_simulator.run_scenario_worker(args): the returned dict, the log and
\* the paths created
LeakSimulatorWorker(scenario_dict, fault, partial) ==
    LET sc == ScenarioFromDict(scenario_dict, scenario_dict.leak_node)
        failed(error) == [success |-> FALSE, scenario_id |-> sc.scenario_id,
                          error |-> error, metadata |-> ToDict(sc)]
        result == RunScenario(sc, fault)
        export == ExportScenario(sc.scenario_id, result.ret.results, fault, partial)
    IN  IF fault = "load"
        THEN [raised |-> FALSE, ret |-> failed("load"),
              log |-> JobLog(fault, "load", {}, FALSE), files |-> {}]
        ELSE IF ~result.ret.success
        THEN [raised |-> FALSE, ret |-> failed(result.ret.error),
              log |-> result.log, files |-> {}]
        ELSE IF fault = "noise"
        THEN [raised |-> FALSE, ret |-> failed("export"),
              log |-> [result.log EXCEPT !.step = "noise"], files |-> {}]
        ELSE IF export.raised
        THEN [raised |-> FALSE, ret |-> failed("export"),
              log |-> [result.log EXCEPT !.step = "export"], files |-> export.files]
        ELSE [raised |-> FALSE,
              ret |-> [success |-> TRUE, scenario_id |-> sc.scenario_id,
                       metadata |-> ToDict(sc)],
              log |-> result.log, files |-> export.files]

\* nothing came back from the worker: it left with an exception
NoReturn == [kind |-> "raised"]

\* dataset_generator.run_scenario_worker(args)
DatasetWorker(scenario_dict, fault) ==
    LET rebuild_raises == ~HasLeakNodes(scenario_dict)
                          /\ NormalizeRaises(scenario_dict.leak_node)
        sc == ScenarioFromDict(scenario_dict, Normalize(scenario_dict.leak_node))
        failed(error) == [success |-> FALSE, scenario_id |-> sc.scenario_id,
                          error |-> error]
        run == SimulationRun(sc, fault)
    IN  IF rebuild_raises
        THEN [raised |-> TRUE, ret |-> NoReturn,
              log |-> JobLog(fault, "rebuild", {}, FALSE), files |-> {}]
        ELSE IF fault = "load"
        THEN [raised |-> FALSE, ret |-> failed("load"),
              log |-> JobLog(fault, "load", {}, FALSE), files |-> {}]
        ELSE IF run.raised
        THEN [raised |-> FALSE, ret |-> failed(run.log.step),
              log |-> run.log, files |-> {}]
        ELSE [raised |-> FALSE,
              ret |-> [success |-> TRUE, scenario_id |-> sc.scenario_id,
                       df |-> run.df, metadata |-> ToDict(sc)],
              log |-> run.log, files |-> {}]

\* one pass of the loop of DatasetGenerator._run_sequential
SequentialRun(sc, fault) ==
    LET run == SimulationRun(sc, fault)
    IN  IF run.raised
        THEN [raised |-> FALSE,
              ret |-> [success |-> FALSE, scenario_id |-> sc.scenario_id,
                       error |-> run.log.step],
              log |-> run.log, files |-> {}]
        ELSE [raised |-> FALSE,
              ret |-> [success |-> TRUE, scenario_id |-> sc.scenario_id,
                       df |-> run.df, metadata |-> ToDict(sc)],
              log |-> run.log, files |-> {}]

\* one pass of the sequential loop of generate_leak_scenarios.main
SequentialRunScenario(sc, fault) ==
    LET result == RunScenario(sc, fault)
    IN  [raised |-> FALSE, ret |-> result.ret, log |-> result.log, files |-> {}]

-----------------------------------------------------------------------------
(* The orchestrators: generate_leak_scenarios.main and                     *)
(* DatasetGenerator.generate                                               *)

\* the window of every leak of the batch scenarios: [3600 s, 7200 s]
BatchWindow == Window(Hours(1), Hours(1))

\* the leak nodes of the scenarios a batch is made of: a single leak at any
\* node of the network, a multi-leak record of a junction and the reservoir,
\* and a multi-leak record left with its primary only
BatchLeaks ==
    { [multi |-> FALSE, nodes |-> <<n>>] : n \in NodeNames }
    \cup
    { [multi |-> TRUE, nodes |-> ns] : ns \in { <<J42, R7>>, <<J42F>> } }

\* the LeakScenario with these leak nodes
BatchScenario(scenario_id, leaks) ==
    IF leaks.multi
    THEN MultiLeakScenario(scenario_id, leaks.nodes,
                           [i \in 1..Len(leaks.nodes) |-> BatchWindow])
    ELSE SingleLeakScenario(scenario_id, leaks.nodes[1], BatchWindow)

\* scenario lists with the ids 1..n in order
ScenarioLists ==
    UNION { { [i \in 1..n |-> BatchScenario(i, c[i])] : c \in [1..n -> BatchLeaks] } :
            n \in 0..MaxJobs }

BatchConfigs ==
    [kind : {"batch"},
     entry : {"main", "dataset_generator"},
     parallel : BOOLEAN,
     inp : {ValidInp, MissingInp},
     tmp_ok : {TRUE},
     scenarios : ScenarioLists]

Pending == [kind |-> "pending"]

NJobs == Len(b_cfg.scenarios)

Done(i) == results[i] # Pending

\* the environment faults applied so far
FaultsUsed ==
    Cardinality({i \in 1..NJobs : joblog[i] # Pending /\ joblog[i].fault # "none"})

FaultAllowed(fault) == fault = "none" \/ FaultsUsed < MaxFaults

Succeeded(r) == r \notin {Pending, NoReturn} /\ r.success

\* sum(1 for r in results if r.get('success', False))
Successful == Cardinality({i \in 1..NJobs : Succeeded(results[i])})

\* the scenarios of the batches that look at the template: a junction, the
\* reservoir, and a multi-leak record of both
TemplateLeaks ==
    { [multi |-> FALSE, nodes |-> <<n>>] : n \in {J42, R7} }
    \cup { [multi |-> TRUE, nodes |-> <<J42, R7>>] }

TemplateScenarioLists ==
    UNION { { [i \in 1..n |-> BatchScenario(i, c[i])] : c \in [1..n -> TemplateLeaks] } :
            n \in 0..MaxJobs }

\* the batches over every source file, with and without a writable
\* temporary directory
TemplateConfigs ==
    [kind : {"batch"},
     entry : {"main", "dataset_generator"},
     parallel : BOOLEAN,
     inp : InpFiles,
     tmp_ok : BOOLEAN,
     scenarios : TemplateScenarioLists]

\* the state a batch with this configuration starts in
BatchStart(cfgs) ==
    /\ b_cfg \in cfgs
    /\ b_pc = "start"
    /\ results = [i \in 1..Len(b_cfg.scenarios) |-> Pending]
    /\ joblog = [i \in 1..Len(b_cfg.scenarios) |-> Pending]
    /\ files = {}
    /\ summary = Idle
    /\ loader = [wn |-> None, model_bytes |-> None]
    /\ loaded = Idle
    /\ inp_log = [loads |-> 0, parses |-> 0, serializations |-> 0]
    /\ heap = <<>>
    /\ clones = [i \in 1..Len(b_cfg.scenarios) |-> Pending]
    /\ gen_cfg = Idle /\ gen_pc = "idle" /\ n_scenarios = 0 /\ node_list = <<>>
    /\ scenarios = <<>> /\ scenario = NoScenario /\ create_args = NoArgs
    /\ LabIdle
    /\ CallIdle

InitBatch == BatchStart(BatchConfigs)

InitTemplate == BatchStart(TemplateConfigs)

\* ModelLoader.load_and_validate of the template: main returns, and
\* DatasetGenerator.__init__ raises, when it fails
LoadTemplate ==
    /\ b_pc = "start"
    /\ LET r == LoadAndValidate(b_cfg.inp, b_cfg.tmp_ok)
       IN  /\ loaded' = [success |-> r.success, message |-> r.message]
           /\ loader' = Loader(r, TemplateRef)
           /\ heap' = IF r.success THEN (TemplateRef :> r.network) @@ heap ELSE heap
           /\ inp_log' = [loads |-> inp_log.loads + 1,
                          parses |-> inp_log.parses + (IF r.parsed THEN 1 ELSE 0),
                          serializations |-> inp_log.serializations
                                             + (IF r.serialized THEN 1 ELSE 0)]
           /\ b_pc' = IF r.success THEN "running" ELSE "fatal"
    /\ UNCHANGED <<b_cfg, results, joblog, files, summary, clones, genVars, labVars, callVars>>

Record(i, w) ==
    /\ results' = [results EXCEPT ![i] = w.ret]
    /\ joblog' = [joblog EXCEPT ![i] = w.log]
    /\ files' = files \cup w.files

\* the job got as far as create_model_copy returning a network
Cloned(log) == log.step \notin {"rebuild", "load", "clone"}

\* the network a job clones from the loader ldr and runs on; h is the heap
\* the job found
RunOnClone(i, log, ldr, h) ==
    IF Cloned(log)
    THEN LET c == CreateModelCopy(ldr, h, b_cfg.inp, CloneRef(i))
         IN  /\ clones' = [clones EXCEPT ![i] = [ref |-> c.ref, network |-> c.network]]
             /\ heap' = (c.ref :> RunOn(c.network, log)) @@ h
    ELSE /\ UNCHANGED clones
         /\ heap' = h

\* a pool worker loads the source file into a ModelLoader of its own,
\* unless it left before
WorkerLoads(log) == log.step # "rebuild"

\* the reads of the source file one job adds: the worker's own load, and a
\* create_model_copy without model_bytes
JobReads(log, own_loader) ==
    LET loads == IF own_loader /\ WorkerLoads(log) THEN 1 ELSE 0
        load_ok == own_loader /\ WorkerLoads(log) /\ log.step # "load"
        from_source == Cloned(log) /\ ~b_cfg.tmp_ok
    IN  [loads |-> inp_log.loads + loads,
         parses |-> inp_log.parses + (IF load_ok THEN 1 ELSE 0)
                                   + (IF from_source THEN 1 ELSE 0),
         serializations |-> inp_log.serializations
                            + (IF load_ok /\ b_cfg.tmp_ok THEN 1 ELSE 0)]

\* the worker of job i with a ModelLoader of its own
InWorker(i, w) ==
    LET r == LoadAndValidate(b_cfg.inp, b_cfg.tmp_ok)
        loads == WorkerLoads(w.log) /\ w.log.step # "load"
        h == IF loads THEN (WorkerRef(i) :> r.network) @@ heap ELSE heap
    IN  /\ Record(i, w)
        /\ RunOnClone(i, w.log, Loader(r, WorkerRef(i)), h)
        /\ inp_log' = JobReads(w.log, TRUE)

\* job i in the coordinator's process, on its ModelLoader
InCoordinator(i, w) ==
    /\ Record(i, w)
    /\ RunOnClone(i, w.log, loader, heap)
    /\ inp_log' = JobReads(w.log, FALSE)

\* one task of pool.map(run_scenario_worker, worker_args)
PoolWorker ==
    /\ b_pc = "running" /\ b_cfg.parallel
    /\ \E i \in 1..NJobs, fault \in Faults :
       \E partial \in (IF fault \in {"nodes", "pipes"} THEN BOOLEAN ELSE {FALSE}) :
          /\ ~Done(i)
          /\ FaultAllowed(fault)
          /\ LET scenario_dict == ToDict(b_cfg.scenarios[i])
             IN  IF b_cfg.entry = "main"
                 THEN InWorker(i, LeakSimulatorWorker(scenario_dict, fault, partial))
                 ELSE InWorker(i, DatasetWorker(scenario_dict, fault))
    /\ UNCHANGED <<b_cfg, b_pc, summary, loader, loaded, genVars, labVars, callVars>>

\* pool.map returns the list of results, or re-raises what a task raised
\* (with one task per chunk, as for the batches here, the other tasks have
\* run by then)
PoolReturn ==
    /\ b_pc = "running" /\ b_cfg.parallel
    /\ \A i \in 1..NJobs : Done(i)
    /\ b_pc' = IF \E i \in 1..NJobs : results[i] = NoReturn
               THEN "aborted" ELSE "collected"
    /\ UNCHANGED <<b_cfg, results, joblog, files, summary, loadVars, genVars, labVars, callVars>>

\* one pass of the sequential loop
SequentialStep ==
    /\ b_pc = "running" /\ ~b_cfg.parallel
    /\ \E i \in 1..NJobs, fault \in Faults \ {"load", "noise", "mkdir", "nodes", "pipes"} :
          /\ ~Done(i)
          /\ \A j \in 1..(i - 1) : Done(j)
          /\ FaultAllowed(fault)
          /\ IF b_cfg.entry = "main"
             THEN InCoordinator(i, SequentialRunScenario(b_cfg.scenarios[i], fault))
             ELSE InCoordinator(i, SequentialRun(b_cfg.scenarios[i], fault))
    /\ UNCHANGED <<b_cfg, b_pc, summary, loader, loaded, genVars, labVars, callVars>>

\* the sequential loop is over
SequentialReturn ==
    /\ b_pc = "running" /\ ~b_cfg.parallel
    /\ \A i \in 1..NJobs : Done(i)
    /\ b_pc' = "collected"
    /\ UNCHANGED <<b_cfg, results, joblog, files, summary, loadVars, genVars, labVars, callVars>>

BatchSummary == [kind |-> "summary", total |-> NJobs,
                 successful |-> Successful, failed |-> NJobs - Successful]

\* all_metadata of main: the non-empty metadata of the successful results
AllMetadata ==
    {i \in 1..NJobs : /\ Succeeded(results[i])
                      /\ "metadata" \in DOMAIN results[i]}

\* main after the run: the counts are printed, then metadata.csv and
\* labels.csv are written from the collected metadata.  b_pc is
\* "write_failed" when one of the two writes raised.
MainCollect ==
    /\ b_pc = "collected" /\ b_cfg.entry = "main"
    /\ summary' = BatchSummary
    /\ \E fault \in {"none", "metadata", "labels"}, partial \in BOOLEAN :
          /\ FaultAllowed(fault)
          /\ IF AllMetadata = {}
             THEN b_pc' = "done" /\ UNCHANGED files
             ELSE IF fault = "metadata"
             THEN /\ b_pc' = "write_failed"
                  /\ files' = files \cup Torn(<<"metadata.csv">>, partial)
             ELSE IF fault = "labels"
             THEN /\ b_pc' = "write_failed"
                  /\ files' = files \cup {File(<<"metadata.csv">>, "complete")}
                                    \cup Torn(<<"labels.csv">>, partial)
             ELSE /\ b_pc' = "done"
                  /\ files' = files \cup {File(<<"metadata.csv">>, "complete"),
                                          File(<<"labels.csv">>, "complete")}
    /\ UNCHANGED <<b_cfg, results, joblog, loadVars, genVars, labVars, callVars>>

\* the parquet files DatasetGenerator.generate has written when its export
\* loop has passed the results before position upto
Exported(upto) ==
    {File(ScenarioParquet(results[i].scenario_id),
          IF results[i].df = "empty" THEN "empty" ELSE "complete") :
        i \in {j \in 1..(upto - 1) : Succeeded(results[j])}}

\* DatasetGenerator.generate after the run: the counts, the export loop
\* over the successful results, metadata.csv, the returned summary.  A
\* write that raises leaves generate() with the exception: b_pc is "aborted"
\* when it was the write of a scenario's file, "write_failed" when it was
\* the write of metadata.csv.
GenerateExport ==
    /\ b_pc = "collected" /\ b_cfg.entry = "dataset_generator"
    /\ \E at \in 0..(NJobs + 1), partial \in BOOLEAN :
          /\ at = 0 \/ FaultAllowed("export")
          /\ at \in 1..NJobs => Succeeded(results[at])
          /\ at = NJobs + 1 => Successful > 0
          /\ IF at = 0
             THEN /\ files' = files \cup Exported(NJobs + 1)
                               \cup (IF Successful > 0
                                     THEN {File(<<"metadata.csv">>, "complete")} ELSE {})
                  /\ summary' = BatchSummary
                  /\ b_pc' = "done"
             ELSE /\ files' = files \cup Exported(at)
                               \cup (IF at = NJobs + 1
                                     THEN Torn(<<"metadata.csv">>, partial)
                                     ELSE Torn(ScenarioParquet(results[at].scenario_id),
                                               partial))
                  /\ UNCHANGED summary
                  /\ b_pc' = IF at = NJobs + 1 THEN "write_failed" ELSE "aborted"
    /\ UNCHANGED <<b_cfg, results, joblog, loadVars, genVars, labVars, callVars>>

NextBatch ==
    \/ LoadTemplate
    \/ PoolWorker
    \/ PoolReturn
    \/ SequentialStep
    \/ SequentialReturn
    \/ MainCollect
    \/ GenerateExport

SpecBatch == InitBatch /\ [][NextBatch]_vars

SpecTemplate == InitTemplate /\ [][NextBatch]_vars

-----------------------------------------------------------------------------
(* Labelling of the exported rows: train_leak_model.py                     *)

MaxTimestamp == 3

MaxLabelScenarios == 2

MaxLabelLeaks == 2

J07 == <<"0", "7">>

\* the node ids of the exported rows
LabelNodes == {J42, J42F, J07}

\* the timestamps of the exported rows, in seconds
Timestamps == 0..MaxTimestamp

\* leak windows that leave a timestamp before the start and after the end
LabelWindows ==
    { [start_time_s |-> p[1], duration_s |-> p[2] - p[1], end_time_s |-> p[2]] :
        p \in {q \in (1..(MaxTimestamp - 1)) \X (1..(MaxTimestamp - 1)) : q[1] <= q[2]} }

\* metadata.csv of a batch of single-leak scenarios: the to_dict records of
\* the scenarios 1..n
SingleLeakTables ==
    UNION { { [i \in 1..n |-> ToDict(SingleLeakScenario(i, c[i][1], c[i][2]))] :
                c \in [1..n -> LabelNodes \X LabelWindows] } :
            n \in 1..MaxLabelScenarios }

\* metadata.csv of a batch generated with leaks_per_scenario > 1: one
\* scenario with its list columns
MultiLeakTables ==
    UNION { { << ToDict(MultiLeakScenario(1, ns, ws)) >> :
                ns \in [1..k -> LabelNodes], ws \in [1..k -> LabelWindows] } :
            k \in 1..MaxLabelLeaks }

LabelConfigs == [kind : {"labelling"}, metadata : SingleLeakTables \cup MultiLeakTables]

\* the rows of df_ml: (scenario_id, node_id, timestamp)
Rows == (1..Len(lab_cfg.metadata)) \X LabelNodes \X Timestamps

IsIntLiteral(x) == x # <<>> /\ \A i \in 1..Len(x) : x[i] \in Digits

RECURSIVE StripTrailingZeros(_)
StripTrailingZeros(x) ==
    IF Len(x) > 1 /\ x[Len(x)] = "0"
    THEN StripTrailingZeros(SubSeq(x, 1, Len(x) - 1)) ELSE x

\* str(float(x)) of a literal without exponent
FloatStr(x) ==
    IF IsIntLiteral(x)
    THEN StripLeadingZeros(x) \o <<".", "0">>
    ELSE LET dot == CHOOSE i \in 1..Len(x) : x[i] = "."
             frac == SubSeq(x, dot + 1, Len(x))
         IN  IntOfFloat(x) \o <<".">> \o
             (IF frac = <<>> THEN <<"0">> ELSE StripTrailingZeros(frac))

\* the dtype pd.read_csv gives a column of these cells
CsvDtype(cells) ==
    IF \A i \in 1..Len(cells) : IsIntLiteral(cells[i]) THEN "int64"
    ELSE IF \A i \in 1..Len(cells) : IsIntLiteral(cells[i]) \/ IsFloatLiteral(cells[i])
         THEN "float64"
    ELSE "object"

\* str(row['leak_node']) of a cell read back from metadata.csv
ReadCsvCell(cell, dtype) ==
    IF dtype = "int64" THEN StripLeadingZeros(cell)
    ELSE IF dtype = "float64" THEN FloatStr(cell)
    ELSE cell

\* 'leak_nodes' in metadata.columns and 'n_leaks' in metadata.columns
MultiLeakFormat(metadata) ==
    \E i \in 1..Len(metadata) : {"leak_nodes", "n_leaks"} \subseteq DOMAIN metadata[i]

\* metadata_expanded of one metadata row: str(leak_node), start_time_s and
\* end_time_s of each leak
ExpandedRows(metadata, i) ==
    IF MultiLeakFormat(metadata)
    THEN [k \in 1..Len(metadata[i].leak_nodes) |->
            [leak_node |-> metadata[i].leak_nodes[k],
             start_time_s |-> metadata[i].leak_start_times_s[k],
             end_time_s |-> metadata[i].leak_end_times_s[k]]]
    ELSE LET dtype == CsvDtype([j \in 1..Len(metadata) |-> metadata[j].leak_node])
         IN  << [leak_node |-> ReadCsvCell(metadata[i].leak_node, dtype),
                 start_time_s |-> metadata[i].start_time_s,
                 end_time_s |-> metadata[i].end_time_s] >>

\* building leak_lookup raises: int(float(...)) of a leak node
LeakLookupRaises(metadata) ==
    \E i \in 1..Len(metadata) :
        \E k \in 1..Len(ExpandedRows(metadata, i)) :
            NormalizeRaises(ExpandedRows(metadata, i)[k].leak_node)

\* leak_lookup[scenario_id]: the leaks with the node id normalised
LeakLookup(metadata) ==
    [i \in 1..Len(metadata) |->
        [k \in 1..Len(ExpandedRows(metadata, i)) |->
            [ExpandedRows(metadata, i)[k] EXCEPT !.leak_node = Normalize(@)]]]

\* leak_mask of one row: node_id_str == leak_node, start <= timestamp <= end
LeakMask(row, leak_info) ==
    /\ row[2] = leak_info.leak_node
    /\ row[3] >= leak_info.start_time_s
    /\ row[3] <= leak_info.end_time_s

InitLabel ==
    /\ lab_cfg \in LabelConfigs
    /\ lab_pc = "start"
    /\ leak_lookup = <<>>
    /\ has_leak = <<>>
    /\ processed = 0
    /\ gen_cfg = Idle /\ gen_pc = "idle" /\ n_scenarios = 0 /\ node_list = <<>>
    /\ scenarios = <<>> /\ scenario = NoScenario /\ create_args = NoArgs
    /\ BatchIdle
    /\ CallIdle

\* metadata.csv is read, expanded to one row per leak, leak_lookup is built
\* and has_leak is initialised to 0
BuildLeakLookup ==
    /\ lab_pc = "start"
    /\ IF LeakLookupRaises(lab_cfg.metadata)
       THEN lab_pc' = "raised" /\ UNCHANGED <<leak_lookup, has_leak>>
       ELSE /\ lab_pc' = "label"
            /\ leak_lookup' = LeakLookup(lab_cfg.metadata)
            /\ has_leak' = [row \in Rows |-> 0]
    /\ UNCHANGED <<lab_cfg, processed, genVars, batchVars, callVars>>

\* one pass of the loop over the scenario groups: the rows of the group
\* that match one of the scenario's leaks are set to 1
LabelGroup ==
    /\ lab_pc = "label"
    /\ processed < Len(lab_cfg.metadata)
    /\ LET scenario_id == processed + 1
           scenario_leaks == leak_lookup[scenario_id]
       IN  has_leak' = [row \in Rows |->
                          IF /\ row[1] = scenario_id
                             /\ \E k \in 1..Len(scenario_leaks) :
                                   LeakMask(row, scenario_leaks[k])
                          THEN 1 ELSE has_leak[row]]
    /\ processed' = processed + 1
    /\ UNCHANGED <<lab_cfg, lab_pc, leak_lookup, genVars, batchVars, callVars>>

\* the loop over the groups is over
LabelDone ==
    /\ lab_pc = "label"
    /\ processed = Len(lab_cfg.metadata)
    /\ lab_pc' = "done"
    /\ UNCHANGED <<lab_cfg, leak_lookup, has_leak, processed, genVars, batchVars, callVars>>

NextLabel == BuildLeakLookup \/ LabelGroup \/ LabelDone

SpecLabel == InitLabel /\ [][NextLabel]_vars

-----------------------------------------------------------------------------
(* Properties of the generator *)

\* the leaks of a LeakScenario, primary first
Leaks(s) ==
    IF s.leak_nodes = <<>>
    THEN << [node |-> s.leak_node, start_s |-> s.start_time_s,
             duration_s |-> s.duration_s, end_s |-> s.end_time_s] >>
    ELSE [i \in 1..Len(s.leak_nodes) |->
            [node |-> s.leak_nodes[i], start_s |-> s.leak_start_times_s[i],
             duration_s |-> s.leak_durations_s[i], end_s |-> s.leak_end_times_s[i]]]

\* primary leak nodes of the scenarios generated so far
Primaries == [i \in 1..Len(scenarios) |-> scenarios[i][2]]

\* C6: with ensure_all_nodes over a non-empty eligible list, when generate()
\* returns, every eligible node is the primary leak of exactly one of the
\* first |nodes| scenarios.
C6_CoverageExactlyOnce ==
    (gen_pc = "done" /\ gen_cfg.ensure_all_nodes /\ gen_cfg.leak_nodes # <<>>) =>
        LET k == Len(gen_cfg.leak_nodes)
        IN  /\ Len(scenarios) >= k
            /\ \A v \in Range(gen_cfg.leak_nodes) :
                  Cardinality({i \in 1..k : Primaries[i] = v}) = 1

\* C7: every generated leak ends no later than the simulation:
\* end_s = start_s + duration_s <= int(simulation_duration_h * 3600).
C7_WindowContainment ==
    scenario.kind = "scenario" =>
        \A i \in 1..Len(Leaks(scenario)) :
            LET l == Leaks(scenario)[i]
            IN  /\ l.end_s = l.start_s + l.duration_s
                /\ l.end_s <= ToSeconds(gen_cfg.simulation_duration_h)

\* C8: every generated leak has start_min*3600 <= start_s <= start_max*3600
\* and duration_min*3600 <= duration_s <= duration_max*3600 (the configured
\* hours are compared in ticks).
C8_StartAndDurationWithinBounds ==
    scenario.kind = "scenario" =>
        \A i \in 1..Len(Leaks(scenario)) :
            LET l == Leaks(scenario)[i]
                tr == gen_cfg.leak_time_range
            IN  /\ l.start_s * TicksPerSecond >= tr.start_h_min
                /\ l.start_s * TicksPerSecond <= tr.start_h_max
                /\ l.duration_s * TicksPerSecond >= tr.duration_h_min
                /\ l.duration_s * TicksPerSecond <= tr.duration_h_max

\* C9: with leaks_per_scenario > 1 the leak node ids of a scenario are
\* pairwise distinct and the first of them is the primary node the call
\* was given.
C9_LeakNodesDistinctPrimaryFirst ==
    (scenario.kind = "scenario" /\ gen_cfg.leaks_per_scenario > 1) =>
        /\ scenario.leak_nodes # <<>>
        /\ scenario.leak_nodes[1] = create_args[2]
        /\ scenario.leak_node = create_args[2]
        /\ \A i, j \in 1..Len(scenario.leak_nodes) :
              i # j => scenario.leak_nodes[i] # scenario.leak_nodes[j]

\* the call's list holds fewer entries other than the primary than
\* leaks_per_scenario - 1
FewerNodesThanRequested ==
    /\ create_args # NoArgs
    /\ CountOther(gen_cfg.leak_nodes, create_args[2]) < gen_cfg.leaks_per_scenario - 1

-----------------------------------------------------------------------------
(* Properties of a batch *)

\* the batch is over and its template had loaded
BatchEnded == b_pc \in {"done", "aborted", "write_failed"}

\* job i has returned an outcome to the coordinator
HasOutcome(i) == results[i] \notin {Pending, NoReturn}

\* the outcome of job i is a failure
FailedOutcome(i) == HasOutcome(i) /\ ~results[i].success

\* the paths under out_dir that belong to a scenario
ScenarioPaths(scenario_id) ==
    {f \in files : Len(f.path) >= 2 /\ f.path[2] = scenario_id}

\* C2: failure isolation.  When the batch is over, every scenario was run and
\* has its own outcome, a scenario one of whose steps failed is marked
\* failed, and no error of a scenario's step has left the pool or the loop.
C2_FailureIsolation ==
    BatchEnded =>
        /\ b_pc # "aborted"
        /\ \A i \in 1..NJobs :
              /\ HasOutcome(i)
              /\ joblog[i].step # "none" => ~results[i].success

\* C3: a batch whose template loaded ends with a summary; successful + failed
\* is the number of scenarios, failed the number of failure outcomes.
C3_BatchEndsWithSummary ==
    BatchEnded =>
        /\ summary # Idle
        /\ summary.successful + summary.failed = NJobs
        /\ summary.failed = Cardinality({i \in 1..NJobs : FailedOutcome(i)})

\* C4: when the batch is over, no directory or file of a scenario whose
\* outcome is failed exists under out_dir.
C4_NoArtifactOfFailedScenario ==
    BatchEnded =>
        \A i \in 1..NJobs :
            FailedOutcome(i) => ScenarioPaths(results[i].scenario_id) = {}

\* C5: what a pool worker returns holds scenario_id, success, optionally
\* error, and the metadata record, nothing else, and a worker that reports
\* success has written the scenario's files itself.
C5_OnlyOutcomeCrossesBoundary ==
    b_cfg.parallel =>
        \A i \in 1..NJobs :
            HasOutcome(i) =>
                /\ {"scenario_id", "success"} \subseteq DOMAIN results[i]
                /\ DOMAIN results[i] \subseteq {"scenario_id", "success", "error", "metadata"}
                /\ (results[i].success /\ joblog[i].step = "none") =>
                       ScenarioPaths(results[i].scenario_id) # {}

-----------------------------------------------------------------------------
(* Properties of the labelling *)

\* the scenario a metadata record describes
LabelledScenario(i) ==
    ScenarioFromDict(lab_cfg.metadata[i], lab_cfg.metadata[i].leak_node)

\* a leak of the row's scenario is at the row's node and its window holds
\* the row's timestamp, both ends included
InLeak(row) ==
    \E k \in 1..Len(Leaks(LabelledScenario(row[1]))) :
        LET l == Leaks(LabelledScenario(row[1]))[k]
        IN  l.node = row[2] /\ l.start_s <= row[3] /\ row[3] <= l.end_s

\* C1: the label rule.  When the labelling is done, a row is labelled 1 if
\* and only if a leak of its scenario has the row's node id and a window
\* [start_s, end_s] that holds the row's timestamp; every other row is 0.
C1_LabelRule ==
    lab_pc = "done" => \A row \in Rows : (has_leak[row] = 1) <=> InLeak(row)


-----------------------------------------------------------------------------
(* The template and its clones                                              *)

\* the network the loaders hold after a successful load of the batch's file
Pristine == ParseInp(b_cfg.inp.network)

\* the references of the networks held by loaders
LoaderRefs == {TemplateRef} \cup {WorkerRef(i) : i \in 1..NJobs}

CloneMade(i) == clones[i] # Pending

\* C11: once the template is loaded, the loader's network and byte buffer
\* stay as the load left them whatever runs were made; every clone is an
\* object of its own, distinct from every loader's network and from every
\* other clone, and starts from the template's state, so that what a run
\* changed in its clone shows nowhere else.
C11_TemplateImmutable ==
    (loaded # Idle /\ loaded.success) =>
        /\ loader.wn = TemplateRef
        /\ loader.model_bytes = (IF b_cfg.tmp_ok THEN WriteInp(Pristine) ELSE None)
        /\ \A ref \in LoaderRefs \cap DOMAIN heap : heap[ref] = Pristine
        /\ \A i \in 1..NJobs : CloneMade(i) =>
               /\ clones[i].ref \notin LoaderRefs
               /\ clones[i].network = Pristine
               /\ \A j \in 1..NJobs :
                      (j # i /\ CloneMade(j)) => clones[j].ref # clones[i].ref

\* two runs were made on the coordinator's loader, one of them injected a
\* leak into its clone, and the batch has ended
C11_Witness ==
    /\ BatchEnded
    /\ ~b_cfg.parallel
    /\ \E i, j \in 1..NJobs :
           /\ i # j /\ CloneMade(i) /\ CloneMade(j)
           /\ heap[clones[i].ref].leaks # {}
           /\ heap[clones[i].ref].duration = "config"
    /\ heap[TemplateRef] = Pristine


\* C12: the template is created once per batch: whatever the number of
\* scenarios and whether or not the pool is used, a batch that has ended has
\* read and validated the source file once, parsed it once and serialized
\* the network once.
C12_TemplateCreatedOnce ==
    BatchEnded => inp_log = [loads |-> 1, parses |-> 1, serializations |-> 1]


\* the source file is missing, lacks a required section, has fewer than
\* MinSections section markers, or cannot be read or parsed
Unusable(inp) ==
    \/ ~inp.exists
    \/ RequiredSections \ inp.sections # {}
    \/ inp.brackets < MinSections
    \/ ~inp.readable
    \/ ~inp.parses

NothingRan ==
    /\ \A i \in 1..NJobs :
           results[i] = Pending /\ joblog[i] = Pending /\ clones[i] = Pending
    /\ files = {}
    /\ heap = <<>>
    /\ summary = Idle

\* C13: whenever the load of an unusable source file has returned, it
\* returned failure with an error message, the loader holds neither a network
\* nor a byte buffer, and the batch is over without any scenario having been
\* dispatched, simulated or written; and a load only fails for such a file.
C13_LoadFailureIsBatchFatal ==
    loaded # Idle =>
        /\ Unusable(b_cfg.inp) <=> ~loaded.success
        /\ ~loaded.success =>
               /\ loaded.message # ""
               /\ loaded.message # "loaded and validated"
               /\ loader = [wn |-> None, model_bytes |-> None]
               /\ b_pc = "fatal"
               /\ NothingRan

\* a batch of at least one scenario over a file that has every required
\* section and too few section markers has ended at the load
C13_Witness ==
    /\ b_pc = "fatal"
    /\ NJobs > 0
    /\ RequiredSections \subseteq b_cfg.inp.sections
    /\ b_cfg.inp.brackets < MinSections
    /\ ~loaded.success


-----------------------------------------------------------------------------
(* One scenario run by LeakSimulator.run_scenario or Simulation.run         *)

\* the longest leak_nodes list of a scenario run on its own
MaxRunLeaks == 2

\* leak_nodes lists over the nodes of the network
RunNodeLists == UNION { [1..n -> NodeNames] : n \in 1..MaxRunLeaks }

\* a single leak at any node, and every multi-leak record
RunScenarios ==
    { BatchScenario(1, [multi |-> FALSE, nodes |-> <<n>>]) : n \in NodeNames }
    \cup { BatchScenario(1, [multi |-> TRUE, nodes |-> ns]) : ns \in RunNodeLists }

RunConfigs ==
    [kind : {"run"},
     simulator : {"LeakSimulator", "Simulation"},
     scenario : RunScenarios,
     fault : {"none", "clone", "engine", "extract"}]

InitRun ==
    /\ call_args \in RunConfigs
    /\ call_pc = "call"
    /\ call_ret = Idle
    /\ gen_cfg = Idle /\ gen_pc = "idle" /\ n_scenarios = 0 /\ node_list = <<>>
    /\ scenarios = <<>> /\ scenario = NoScenario /\ create_args = NoArgs
    /\ BatchIdle
    /\ LabIdle

\* simulator.run_scenario(scenario) of leak_simulator.py
RunScenarioCall ==
    /\ call_pc = "call"
    /\ call_args.kind = "run" /\ call_args.simulator = "LeakSimulator"
    /\ LET r == RunScenario(call_args.scenario, call_args.fault)
       IN  call_ret' = [failed |-> ~r.ret.success, log |-> r.log]
    /\ call_pc' = "returned"
    /\ UNCHANGED <<call_args, genVars, batchVars, labVars>>

\* simulator.run(scenario) of simulation.py
SimulationRunCall ==
    /\ call_pc = "call"
    /\ call_args.kind = "run" /\ call_args.simulator = "Simulation"
    /\ LET r == SimulationRun(call_args.scenario, call_args.fault)
       IN  call_ret' = [failed |-> r.raised, log |-> r.log]
    /\ call_pc' = "returned"
    /\ UNCHANGED <<call_args, genVars, batchVars, labVars>>

NextRun == RunScenarioCall \/ SimulationRunCall

SpecRun == InitRun /\ [][NextRun]_vars

\* the scenario takes the branch for several leaks
MultiLeakPath(sc) == Len(sc.leak_nodes) > 1

\* the leak targets of the scenario that are junctions of the network
ValidTargets(sc) == Range(LeakTargets(sc)) \cap Junctions

\* C14: a run in which nothing else fails - on the single-leak path a target
\* that is not a junction fails the scenario without the Engine being
\* invoked; on the multi-leak path the targets that are not junctions are
\* skipped, a leak is added at every other target, and the Engine runs.
C14_InvalidLeakTarget ==
    (call_pc = "returned" /\ call_args.kind = "run" /\ call_args.fault = "none") =>
        LET sc == call_args.scenario
        IN  IF MultiLeakPath(sc)
            THEN /\ ~call_ret.failed
                 /\ call_ret.log.engine
                 /\ call_ret.log.injected = ValidTargets(sc)
            ELSE LeakTargets(sc)[1] \notin Junctions =>
                     call_ret.failed /\ ~call_ret.log.engine


-----------------------------------------------------------------------------
(* LeakSimulator._extract_results and Simulation._extract_to_dataframe:     *)
(* the leak_demand column                                                   *)

\* the report steps of a run, one per hour
MaxReportSteps == 3

\* the largest gauge pressure, in m
MaxPressure == 2

\* g = 9.81 m/s2, in cm/s2
G == 981

\* results.node['pressure'].index, in seconds
ReportTimes == { k * SecondsPerHour : k \in 0..MaxReportSteps }

\* a pressure reading: NaN, or a number of metres
PressureValues ==
    {[nan |-> TRUE, m |-> 0]} \cup {[nan |-> FALSE, m |-> h] : h \in (-1)..MaxPressure}

\* results.node['pressure']: the same reading at every step, or a reading
\* that falls from MaxPressure by one metre per step
PressureProfiles ==
    { [t \in ReportTimes |-> pv] : pv \in PressureValues }
    \cup { [t \in ReportTimes |-> [nan |-> FALSE,
                                   m |-> Max(MaxPressure - t \div SecondsPerHour, -1)]] }

\* what the Engine put into results.node['leak_demand']: no such key, NaN
\* everywhere, 0 everywhere, or the flow of the leaks it was given
EngineModes == {"absent", "nan", "zero", "reported"}

\* the windows of the leaks: [3600, 7200] and [7200, 10800]
ExtractWindows == {Window(Hours(1), Hours(1)), Window(Hours(2), Hours(1))}

\* a single leak at any node, and every multi-leak record, over the windows
ExtractScenarios ==
    { SingleLeakScenario(1, n, w) : n \in NodeNames, w \in ExtractWindows }
    \cup UNION { { MultiLeakScenario(1, ns, ws) :
                     ns \in [1..n -> NodeNames], ws \in [1..n -> ExtractWindows] } :
                 n \in 1..MaxRunLeaks }

\* scenario.leak_areas_m2 in cm2 (leak_area_m2 is the first): a different
\* area for every leak
LeakAreas == [i \in 1..MaxRunLeaks |-> i]

\* scenario.discharge_coeff, in hundredths
DischargeCoeffs == {75, 100}

\* the run that precedes the extraction returned results
RunSucceeds(extractor, sc) ==
    IF extractor = "LeakSimulator"
    THEN RunScenario(sc, "none").ret.success
    ELSE ~SimulationRun(sc, "none").raised

ExtractConfigs ==
    { a \in [kind : {"extract"},
             extractor : {"LeakSimulator", "Simulation"},
             scenario : ExtractScenarios,
             discharge_coeff : DischargeCoeffs,
             pressure : PressureProfiles,
             engine : EngineModes] : RunSucceeds(a.extractor, a.scenario) }

RECURSIVE ISqrtFrom(_, _)
ISqrtFrom(r, n) == IF (r + 1) * (r + 1) > n THEN r ELSE ISqrtFrom(r + 1, n)

\* np.sqrt(x), rounded down to an integer
ISqrt(n) == ISqrtFrom(0, n)

\* scenario.discharge_coeff * leak_area * np.sqrt(2 * g * h): with the
\* coefficient in hundredths, the area in cm2, g in cm/s2 and h in m, the
\* flow in units of 1e-7 m3/s
OrificeFlow(discharge_coeff, leak_area, h) ==
    discharge_coeff * leak_area * ISqrt(2 * G * h)

\* an orifice flow computed from the size of the pressure, whatever its sign
GaugeHeadAbsolute(pressure) ==
    IF pressure.nan THEN 0 ELSE IF pressure.m < 0 THEN 0 - pressure.m ELSE pressure.m

\* h = float(pressure) if pressure is not None and pressure > 0 else 0.0
GaugeHead(pressure) ==
    IF ~pressure.nan /\ pressure.m > 0 THEN pressure.m ELSE 0

\* the window of the i-th leak target of the scenario
TargetWindow(sc, i) ==
    IF MultiLeakPath(sc)
    THEN [start_s |-> sc.leak_start_times_s[i], end_s |-> sc.leak_end_times_s[i]]
    ELSE [start_s |-> sc.start_time_s, end_s |-> sc.end_time_s]

\* the name the run added the i-th leak under: Simulation.run normalises it
InjectedName(extractor, sc, i) ==
    IF extractor = "Simulation"
    THEN Normalize(LeakTargets(sc)[i]) ELSE LeakTargets(sc)[i]

\* the leaks the Engine simulates at this node and time
ActiveLeaks(a, node_name, t) ==
    { i \in 1..Len(LeakTargets(a.scenario)) :
        /\ InjectedName(a.extractor, a.scenario, i) = node_name
        /\ node_name \in Junctions
        /\ TargetWindow(a.scenario, i).start_s <= t
        /\ t <= TargetWindow(a.scenario, i).end_s }

\* results.node['leak_demand'].loc[timestamp, node_name]
EngineLeakDemand(a, node_name, t) ==
    LET active == ActiveLeaks(a, node_name, t)
        i == CHOOSE k \in active : \A j \in active : k <= j
    IN  [present |-> a.engine # "absent",
         nan |-> a.engine = "nan",
         value |-> IF a.engine = "reported" /\ active # {}
                   THEN OrificeFlow(a.discharge_coeff, LeakAreas[i],
                                    GaugeHead(a.pressure[t]))
                   ELSE 0]

\* node_name_normalized: the conversion is inside a try of its own
NormalizeNodeName(node_name) ==
    IF NormalizeRaises(node_name) THEN node_name ELSE Normalize(node_name)

\* leak_node_list
LeakNodeList(extractor, sc) ==
    LET listed == IF extractor = "LeakSimulator"
                  THEN (IF sc.leak_nodes # <<>> THEN sc.leak_nodes ELSE <<sc.leak_node>>)
                  ELSE LeakTargets(sc)
    IN  { Normalize(listed[i]) : i \in 1..Len(listed) }

\* one row of the node table: the leak flow in units of 1e-7 L/s, where it
\* came from, and the area and pressure head the estimate was made with
ExtractRow(a, node_name, t) ==
    LET sc == a.scenario
        node_name_normalized == NormalizeNodeName(node_name)
        is_leak_node == node_name_normalized \in LeakNodeList(a.extractor, sc)
        leak_demand_val == EngineLeakDemand(a, node_name, t)
        taken == /\ leak_demand_val.present
                 /\ a.extractor = "LeakSimulator" => is_leak_node
                 /\ ~leak_demand_val.nan
        engine_demand == IF taken THEN leak_demand_val.value ELSE 0
        matching == { i \in 1..Len(sc.leak_nodes) :
                        /\ node_name_normalized = Normalize(sc.leak_nodes[i])
                        /\ sc.leak_start_times_s[i] <= t
                        /\ t <= sc.leak_end_times_s[i] }
        in_leak_time == IF MultiLeakPath(sc) THEN matching # {}
                        ELSE sc.start_time_s <= t /\ t <= sc.end_time_s
        first == CHOOSE k \in matching : \A j \in matching : k <= j
        leak_area == IF MultiLeakPath(sc) THEN LeakAreas[first] ELSE LeakAreas[1]
        h == GaugeHead(a.pressure[t])
        estimated == engine_demand = 0 /\ is_leak_node /\ in_leak_time /\ h > 0
        leak_demand == IF estimated
                       THEN OrificeFlow(a.discharge_coeff, leak_area, h)
                       ELSE engine_demand
    IN  [leak_demand |-> leak_demand * 1000,
         source |-> IF estimated THEN "estimate"
                    ELSE IF taken /\ engine_demand # 0 THEN "engine" ELSE "none",
         leak_area |-> IF estimated THEN leak_area ELSE 0,
         h |-> IF estimated THEN h ELSE 0]

\* the rows of the node table, none when the extraction raised
NodeRows(a) ==
    LET raised == IF a.extractor = "LeakSimulator"
                  THEN ExtractResultsRaises(a.scenario)
                  ELSE ExtractToDataframeRaises(a.scenario)
    IN  IF raised THEN <<>>
        ELSE [cell \in NodeNames \X ReportTimes |-> ExtractRow(a, cell[1], cell[2])]

InitExtract ==
    /\ call_args \in ExtractConfigs
    /\ call_pc = "call"
    /\ call_ret = Idle
    /\ gen_cfg = Idle /\ gen_pc = "idle" /\ n_scenarios = 0 /\ node_list = <<>>
    /\ scenarios = <<>> /\ scenario = NoScenario /\ create_args = NoArgs
    /\ BatchIdle
    /\ LabIdle

\* self._extract_results(results, scenario) of leak_simulator.py
ExtractResultsCall ==
    /\ call_pc = "call"
    /\ call_args.kind = "extract" /\ call_args.extractor = "LeakSimulator"
    /\ call_ret' = [rows |-> NodeRows(call_args)]
    /\ call_pc' = "returned"
    /\ UNCHANGED <<call_args, genVars, batchVars, labVars>>

\* self._extract_to_dataframe(results, scenario) of simulation.py
ExtractToDataframeCall ==
    /\ call_pc = "call"
    /\ call_args.kind = "extract" /\ call_args.extractor = "Simulation"
    /\ call_ret' = [rows |-> NodeRows(call_args)]
    /\ call_pc' = "returned"
    /\ UNCHANGED <<call_args, genVars, batchVars, labVars>>

NextExtract == ExtractResultsCall \/ ExtractToDataframeCall

SpecExtract == InitExtract /\ [][NextExtract]_vars


-----------------------------------------------------------------------------
(* The leak_demand column                                                   *)

Extracted == call_pc = "returned" /\ call_args.kind = "extract"

\* the leaks of the scenario that name this node and whose window holds t
LeaksOn(sc, node_name, t) ==
    { i \in 1..Len(LeakTargets(sc)) :
        /\ LeakTargets(sc)[i] = node_name
        /\ TargetWindow(sc, i).start_s <= t
        /\ t <= TargetWindow(sc, i).end_s }

\* C15: in every extracted row, the leak flow is 0 when no leak of the
\* scenario names the row's node with a window that holds the row's
\* timestamp; and an estimate is only made for a leak on that node and in
\* that leak's window, with that leak's area.
C15_LeakDemandOnlyAtLeak ==
    Extracted =>
        \A cell \in DOMAIN call_ret.rows :
            LET row == call_ret.rows[cell]
                on == LeaksOn(call_args.scenario, cell[1], cell[2])
            IN  /\ on = {} => row.leak_demand = 0
                /\ row.source = "estimate" =>
                       \E i \in on : row.leak_area = LeakAreas[i]

\* C16: in every extracted row, no estimate is made when the pressure is
\* NaN or not positive; an estimate is made with h = the pressure, it is
\* 1000 * Cd * A * sqrt(2 * g * h) L/s, rounded as the square root is, and
\* positive; and it is only made where the Engine's leak flow is absent, NaN
\* or zero.
C16_OrificeEstimate ==
    Extracted =>
        \A cell \in DOMAIN call_ret.rows :
            LET row == call_ret.rows[cell]
                pressure == call_args.pressure[cell[2]]
                reported == EngineLeakDemand(call_args, cell[1], cell[2])
                root == row.leak_demand \div
                            (1000 * call_args.discharge_coeff * row.leak_area)
            IN  /\ (pressure.nan \/ pressure.m <= 0) =>
                       /\ row.source # "estimate"
                       /\ row.source = "none" => row.leak_demand = 0
                /\ row.source = "estimate" =>
                       /\ row.h = pressure.m
                       /\ row.leak_demand > 0
                       /\ row.leak_demand =
                              1000 * call_args.discharge_coeff * row.leak_area * root
                       /\ root * root <= 2 * G * row.h
                       /\ 2 * G * row.h < (root + 1) * (root + 1)
                       /\ ~reported.present \/ reported.nan \/ reported.value = 0

\* the table has a row with an estimate, and a row of a leak's node inside
\* its window where the pressure is not positive and the leak flow is 0
C16_Witness ==
    /\ Extracted
    /\ \E cell \in DOMAIN call_ret.rows :
           call_ret.rows[cell].source = "estimate"
    /\ \E cell \in DOMAIN call_ret.rows :
           /\ LeaksOn(call_args.scenario, cell[1], cell[2]) # {}
           /\ cell[1] \in Junctions
           /\ ~call_args.pressure[cell[2]].nan
           /\ call_args.pressure[cell[2]].m <= 0
           /\ call_ret.rows[cell].leak_demand = 0


-----------------------------------------------------------------------------
(* Export errors                                                            *)

\* the steps after the Engine run: extracting, adding noise, writing
ExportSteps == {"extract", "noise", "export"}

\* the Engine run of job i succeeded and a later step of it failed
ExportFailed(i) ==
    /\ joblog[i] # Pending
    /\ joblog[i].engine
    /\ joblog[i].step \in ExportSteps

\* every job returned an outcome and the coordinator's loop over the
\* successful results was left by a write that raised
ExportAborted == b_pc = "aborted" /\ \A i \in 1..NJobs : HasOutcome(i)

\* C17: when the batch is over, every scenario whose simulation succeeded
\* and whose extraction or writing failed has a failure outcome with an error
\* message and is counted in the summary's failed total, and no failed write
\* of a scenario's data has aborted the batch.
C17_ExportErrorsSurfaced ==
    BatchEnded =>
        /\ ~ExportAborted
        /\ \A i \in 1..NJobs :
               ExportFailed(i) =>
                   /\ FailedOutcome(i)
                   /\ results[i].error # ""
                   /\ summary # Idle
                   /\ summary.failed >= Cardinality({j \in 1..NJobs : ExportFailed(j)})


\* the files of a scenario's partition that are fully written
CompleteFiles(scenario_id) ==
    {f.path : f \in {g \in ScenarioPaths(scenario_id) : g.content = "complete"}}

\* C18: at every moment, a scenario's partition that exists under out_dir is
\* complete: no file of it is partially written, and a scenario directory
\* holds both the node file and the link file.
C18_AtomicScenarioWrite ==
    \A i \in 1..NJobs :
        LET scenario_id == b_cfg.scenarios[i].scenario_id
        IN  \A f \in ScenarioPaths(scenario_id) :
                /\ f.content # "partial"
                /\ f.path[1] = "scenario" =>
                       {ScenarioFile(scenario_id, "nodes"),
                        ScenarioFile(scenario_id, "pipes")}
                           \subseteq CompleteFiles(scenario_id)


-----------------------------------------------------------------------------
(* generate_leak_scenarios.main, step 5, and DataExporter.export_labels     *)

\* what one job of the batch is made of: its leaks and whether its Engine
\* run fails
LabelChoices ==
    { [multi |-> FALSE, nodes |-> <<n>>, windows |-> <<w>>, fault |-> f] :
        n \in {J42, R7}, w \in ExtractWindows, f \in {"none", "engine"} }
    \cup
    { [multi |-> TRUE, nodes |-> <<J42, J42F>>, windows |-> ws, fault |-> f] :
        ws \in [1..2 -> ExtractWindows], f \in {"none", "engine"} }

\* the scenario of job i
LabelScenario(i, c) ==
    IF c.multi THEN MultiLeakScenario(i, c.nodes, c.windows)
    ELSE SingleLeakScenario(i, c.nodes[1], c.windows[1])

ExportLabelsConfigs ==
    [kind : {"labels"},
     parallel : BOOLEAN,
     jobs : UNION { [1..n -> LabelChoices] : n \in 0..MaxJobs }]

\* results[i] of main: what the pool worker, or run_scenario in the
\* sequential loop, returned
JobResult(parallel, i, c) ==
    IF parallel
    THEN LeakSimulatorWorker(ToDict(LabelScenario(i, c)), c.fault, FALSE).ret
    ELSE SequentialRunScenario(LabelScenario(i, c), c.fault).ret

\* all_metadata: the non-empty metadata of the successful results, in order
CollectMetadata(rs) ==
    LET kept(r) == r.success /\ "metadata" \in DOMAIN r
        successful == SelectSeq(rs, kept)
    IN  [i \in 1..Len(successful) |-> successful[i].metadata]

\* one row of labels.csv
LabelRow(scenario_id, leak_node, leak_area_m2, start_s, duration_s, end_s) ==
    [scenario_id |-> scenario_id, has_leak |-> TRUE, leak_node |-> leak_node,
     leak_area_m2 |-> leak_area_m2, leak_start_time_s |-> start_s,
     leak_duration_s |-> duration_s, leak_end_time_s |-> end_s]

\* the labels of one metadata record: one per leak when n_leaks > 1
LabelsOf(d) ==
    IF "n_leaks" \in DOMAIN d /\ d.n_leaks > 1
    THEN [i \in 1..Len(d.leak_nodes) |->
            LabelRow(d.scenario_id, d.leak_nodes[i], LeakAreas[i],
                     d.leak_start_times_s[i], d.leak_durations_s[i],
                     d.leak_end_times_s[i])]
    ELSE << LabelRow(d.scenario_id, d.leak_node, LeakAreas[1],
                     d.start_time_s, d.duration_s, d.end_time_s) >>

RECURSIVE Labels(_)
Labels(ds) == IF ds = <<>> THEN <<>> ELSE LabelsOf(Head(ds)) \o Labels(Tail(ds))

\* the order of sort_values(['scenario_id', 'leak_start_time_s'])
LabelLeq(a, b) ==
    \/ a.scenario_id < b.scenario_id
    \/ a.scenario_id = b.scenario_id /\ a.leak_start_time_s <= b.leak_start_time_s

RECURSIVE InsertLabel(_, _)
InsertLabel(sorted, row) ==
    IF sorted = <<>> THEN <<row>>
    ELSE IF LabelLeq(Head(sorted), row)
    THEN <<Head(sorted)>> \o InsertLabel(Tail(sorted), row)
    ELSE <<row>> \o sorted

\* df.sort_values on the two columns: a stable sort
RECURSIVE SortLabels(_)
SortLabels(rows) ==
    IF rows = <<>> THEN <<>>
    ELSE InsertLabel(SortLabels(SubSeq(rows, 1, Len(rows) - 1)), rows[Len(rows)])

\* exporter.export_labels(scenarios): nothing is written for an empty list
ExportLabels(ds) ==
    IF ds = <<>> THEN [written |-> FALSE, rows |-> <<>>]
    ELSE [written |-> TRUE, rows |-> SortLabels(Labels(ds))]

InitExportLabels ==
    /\ call_args \in ExportLabelsConfigs
    /\ call_pc = "call"
    /\ call_ret = Idle
    /\ gen_cfg = Idle /\ gen_pc = "idle" /\ n_scenarios = 0 /\ node_list = <<>>
    /\ scenarios = <<>> /\ scenario = NoScenario /\ create_args = NoArgs
    /\ BatchIdle
    /\ LabIdle

\* main from the run of the scenarios to the export of the labels, with the
\* pool
MainParallelLabels ==
    /\ call_pc = "call"
    /\ call_args.kind = "labels" /\ call_args.parallel
    /\ LET rs == [i \in 1..Len(call_args.jobs) |->
                    JobResult(TRUE, i, call_args.jobs[i])]
       IN  call_ret' = [results |-> rs, labels |-> ExportLabels(CollectMetadata(rs))]
    /\ call_pc' = "returned"
    /\ UNCHANGED <<call_args, genVars, batchVars, labVars>>

\* the same with the sequential loop
MainSequentialLabels ==
    /\ call_pc = "call"
    /\ call_args.kind = "labels" /\ ~call_args.parallel
    /\ LET rs == [i \in 1..Len(call_args.jobs) |->
                    JobResult(FALSE, i, call_args.jobs[i])]
       IN  call_ret' = [results |-> rs, labels |-> ExportLabels(CollectMetadata(rs))]
    /\ call_pc' = "returned"
    /\ UNCHANGED <<call_args, genVars, batchVars, labVars>>

NextExportLabels == MainParallelLabels \/ MainSequentialLabels

SpecExportLabels == InitExportLabels /\ [][NextExportLabels]_vars

\* the leaks of job i as label rows
JobLabels(i) ==
    LET c == call_args.jobs[i]
    IN  { LabelRow(i, c.nodes[k], LeakAreas[k], c.windows[k].start_time_s,
                   c.windows[k].duration_s, c.windows[k].end_time_s) :
            k \in 1..Len(c.nodes) }

\* the (scenario, leak) pairs of the successful scenarios as label rows
ExpectedLabels ==
    UNION { JobLabels(i) :
              i \in {j \in 1..Len(call_args.jobs) : call_ret.results[j].success} }

\* C19: the rows of the labels table are the (successful scenario, leak)
\* pairs, each once and with that leak's node, area, start, duration and
\* end, and they are in the order of (scenario_id, leak start time).
C19_LabelsPerSuccessfulLeak ==
    (call_pc = "returned" /\ call_args.kind = "labels") =>
        LET rows == call_ret.labels.rows
        IN  /\ Range(rows) = ExpectedLabels
            /\ Len(rows) = Cardinality(ExpectedLabels)
            /\ \A j \in 1..(Len(rows) - 1) : LabelLeq(rows[j], rows[j + 1])


-----------------------------------------------------------------------------
(* NoiseInjector.inject_noise                                               *)

\* the draws of np.random.normal(0, sigma), in the units of the readings
NoiseDraws == {-2, 0, 1}

P1 == <<"P", "1">>

\* the records of one node: two report steps, any pressure reading (NaN
\* included, as float(pressure) keeps it), a demand out of the network or
\* into it, a head and a leak flow
NodeRecords ==
    { [k \in 1..2 |-> [timestamp |-> (k - 1) * SecondsPerHour,
                       pressure |-> c[k][1], head |-> 5,
                       demand |-> c[k][2], leak_demand |-> 1]] :
        c \in [1..2 -> PressureValues \X {-1, 1}] }

\* np.random.normal(0, sigma): 0.0 when sigma is 0
NormalDraws(sigma) == IF sigma = 0 THEN {0} ELSE NoiseDraws

\* max(0, pressure + pressure_noise): NaN + noise is NaN, and max(0, NaN) is
\* its first argument, as NaN > 0 is false
FlooredPressure(pressure, pressure_noise) ==
    [nan |-> FALSE,
     m |-> IF pressure.nan THEN 0 ELSE Max(0, pressure.m + pressure_noise)]

\* the records of one pipe: one report step, a flow in either direction
PipeRecords ==
    { << [timestamp |-> 0, flow |-> q] >> : q \in {-1, 0, 1} }

\* simulation_results as _extract_results returns it
SimulationResults ==
    { [nodes |-> [n \in {J42} |-> nr], pipes |-> [l \in {P1} |-> pr]] :
        nr \in NodeRecords, pr \in PipeRecords }

NoiseConfigs ==
    [kind : {"noise"}, enabled : BOOLEAN,
     pressure_sigma : {0, 1}, flow_sigma : {0, 1},
     simulation_results : SimulationResults]

\* a node record changed in place: no copy is taken, and the raw values are
\* read after the noisy ones were stored
NoisyNodeRecordInPlace(record, pressure_noise, flow_noise) ==
    LET noisy_record ==
            [timestamp |-> record.timestamp,
             pressure |-> FlooredPressure(record.pressure, pressure_noise),
             pressure_raw |-> FlooredPressure(record.pressure, pressure_noise),
             head |-> record.head,
             demand |-> Max(0, record.demand + flow_noise),
             demand_raw |-> Max(0, record.demand + flow_noise),
             leak_demand |-> record.leak_demand]
    IN  [record |-> [timestamp |-> noisy_record.timestamp,
                     pressure |-> noisy_record.pressure,
                     head |-> noisy_record.head,
                     demand |-> noisy_record.demand,
                     leak_demand |-> noisy_record.leak_demand],
         noisy_record |-> noisy_record]

\* one pass of the loop over the records of a node: record, as it is after
\* the pass, and noisy_record
NoisyNodeRecord(record, pressure_noise, flow_noise) ==
    [record |-> record,
     noisy_record |->
         [timestamp |-> record.timestamp,
          pressure |-> FlooredPressure(record.pressure, pressure_noise),
          pressure_raw |-> record.pressure,
          head |-> record.head,
          demand |-> Max(0, record.demand + flow_noise),
          demand_raw |-> record.demand,
          leak_demand |-> record.leak_demand]]

\* one pass of the loop over the records of a pipe
NoisyPipeRecord(record, flow_noise) ==
    [record |-> record,
     noisy_record |-> [timestamp |-> record.timestamp,
                       flow |-> record.flow + flow_noise,
                       flow_raw |-> record.flow]]

\* inject_noise(simulation_results) with these draws: the returned results
\* and simulation_results as it is after the call
InjectNoise(enabled, simulation_results, node_noise, pipe_noise) ==
    IF ~enabled
    THEN [returned |-> simulation_results, simulation_results |-> simulation_results]
    ELSE LET nodes == simulation_results.nodes
             pipes == simulation_results.pipes
             node(n, k) == NoisyNodeRecord(nodes[n][k], node_noise[n][k][1],
                                           node_noise[n][k][2])
             pipe(l, k) == NoisyPipeRecord(pipes[l][k], pipe_noise[l][k])
         IN  [returned |->
                  [nodes |-> [n \in DOMAIN nodes |->
                                [k \in 1..Len(nodes[n]) |-> node(n, k).noisy_record]],
                   pipes |-> [l \in DOMAIN pipes |->
                                [k \in 1..Len(pipes[l]) |-> pipe(l, k).noisy_record]]],
              simulation_results |->
                  [nodes |-> [n \in DOMAIN nodes |->
                                [k \in 1..Len(nodes[n]) |-> node(n, k).record]],
                   pipes |-> [l \in DOMAIN pipes |->
                                [k \in 1..Len(pipes[l]) |-> pipe(l, k).record]]]]

InitNoise ==
    /\ call_args \in NoiseConfigs
    /\ call_pc = "call"
    /\ call_ret = Idle
    /\ gen_cfg = Idle /\ gen_pc = "idle" /\ n_scenarios = 0 /\ node_list = <<>>
    /\ scenarios = <<>> /\ scenario = NoScenario /\ create_args = NoArgs
    /\ BatchIdle
    /\ LabIdle

\* noise_injector.inject_noise(result['results'])
InjectNoiseCall ==
    /\ call_pc = "call"
    /\ call_args.kind = "noise"
    /\ \E node_noise \in [{J42} -> [1..2 -> NormalDraws(call_args.pressure_sigma)
                                              \X NormalDraws(call_args.flow_sigma)]],
          pipe_noise \in [{P1} -> [1..1 -> NormalDraws(call_args.flow_sigma)]] :
          call_ret' = InjectNoise(call_args.enabled, call_args.simulation_results,
                                  node_noise, pipe_noise)
    /\ call_pc' = "returned"
    /\ UNCHANGED <<call_args, genVars, batchVars, labVars>>

NextNoise == InjectNoiseCall

SpecNoise == InitNoise /\ [][NextNoise]_vars

\* C20: after inject_noise with noise enabled, every node record of the
\* output has pressure >= 0, pressure_raw equal to the pressure and
\* demand_raw equal to the demand of the input record at the same place,
\* every pipe record has flow_raw equal to the input flow, and the input
\* series is as it was before the call.
C20_NoiseKeepsRawValues ==
    (call_pc = "returned" /\ call_args.kind = "noise" /\ call_args.enabled) =>
        LET input == call_args.simulation_results
            output == call_ret.returned
        IN  /\ call_ret.simulation_results = input
            /\ DOMAIN output.nodes = DOMAIN input.nodes
            /\ DOMAIN output.pipes = DOMAIN input.pipes
            /\ \A n \in DOMAIN input.nodes :
                   /\ Len(output.nodes[n]) = Len(input.nodes[n])
                   /\ \A k \in 1..Len(input.nodes[n]) :
                          /\ ~output.nodes[n][k].pressure.nan
                          /\ output.nodes[n][k].pressure.m >= 0
                          /\ output.nodes[n][k].pressure_raw = input.nodes[n][k].pressure
                          /\ output.nodes[n][k].demand_raw = input.nodes[n][k].demand
            /\ \A l \in DOMAIN input.pipes :
                   /\ Len(output.pipes[l]) = Len(input.pipes[l])
                   /\ \A k \in 1..Len(input.pipes[l]) :
                          output.pipes[l][k].flow_raw = input.pipes[l][k].flow

\* noise was added to a negative pressure, a NaN pressure and a flow: the pressure was
\* floored at 0, the flow became negative, and the raw values differ from
\* the noisy ones
C20_Witness ==
    /\ call_pc = "returned" /\ call_args.kind = "noise" /\ call_args.enabled
    /\ \E k \in 1..2 :
           /\ call_args.simulation_results.nodes[J42][k].pressure.m < 0
           /\ call_ret.returned.nodes[J42][k].pressure.m = 0
           /\ call_ret.returned.nodes[J42][k].pressure_raw.m < 0
    /\ \E k \in 1..2 :
           /\ call_args.simulation_results.nodes[J42][k].pressure.nan
           /\ call_ret.returned.nodes[J42][k].pressure.m = 0
           /\ call_ret.returned.nodes[J42][k].pressure_raw.nan
    /\ \E k \in 1..2 :
           call_ret.returned.nodes[J42][k].demand
               # call_ret.returned.nodes[J42][k].demand_raw
    /\ call_ret.returned.pipes[P1][1].flow < 0
    /\ call_ret.returned.pipes[P1][1].flow_raw >= 0

-----------------------------------------------------------------------------
(* The node partition: DataExporter._export_nodes and the DataFrame of      *)
(* Simulation._extract_to_dataframe                                         *)

\* ord(c) for the characters of the node ids
Ord ==
    [c \in Digits \cup {".", "J", "P"} |->
        CASE c = "." -> 46
          [] c = "0" -> 48 [] c = "1" -> 49 [] c = "2" -> 50 [] c = "3" -> 51
          [] c = "4" -> 52 [] c = "5" -> 53 [] c = "6" -> 54 [] c = "7" -> 55
          [] c = "8" -> 56 [] c = "9" -> 57
          [] c = "J" -> 74 [] c = "P" -> 80]

\* a <= b for two str values
RECURSIVE StrLeq(_, _)
StrLeq(a, b) ==
    IF a = <<>> THEN TRUE
    ELSE IF b = <<>> THEN FALSE
    ELSE IF Head(a) = Head(b) THEN StrLeq(Tail(a), Tail(b))
    ELSE Ord[Head(a)] < Ord[Head(b)]

\* results.node['pressure'].index as the Engine returned it: report times in
\* any order, repeated or not
EngineIndexes == UNION { [1..n -> {0, SecondsPerHour}] : n \in 0..MaxReportSteps }

\* results.node['pressure'].columns: node names in any order, repeated or not
EngineColumns == UNION { [1..n -> {J42, J42F, R7}] : n \in 1..2 }

ExportNodesConfigs ==
    [kind : {"export_nodes"}, pipeline : {"leak_simulator", "simulation"},
     index : EngineIndexes, columns : EngineColumns]

HasDuplicates(s) == \E i, j \in 1..Len(s) : i < j /\ s[i] = s[j]

\* .loc[timestamp, node_name] is a Series, not a number, when the label is
\* repeated in the index or in the columns, and float() of it raises
LocRaises(index, columns) ==
    index # <<>> /\ (HasDuplicates(index) \/ HasDuplicates(columns))

\* the records of one node, in the order of the index
NodeData(index, node_name) ==
    [k \in 1..Len(index) |-> [timestamp |-> index[k], node_id |-> node_name]]

\* the records in the order they are appended: node by node, and for each
\* node step by step; the except branch leaves none
RECURSIVE AllRecords(_, _)
AllRecords(index, columns) ==
    IF LocRaises(index, columns) \/ columns = <<>> THEN <<>>
    ELSE NodeData(index, Head(columns)) \o AllRecords(index, Tail(columns))

\* the key of df.sort_values(['timestamp', 'node_id'])
NodeRowLeq(a, b) ==
    \/ a.timestamp < b.timestamp
    \/ a.timestamp = b.timestamp /\ StrLeq(a.node_id, b.node_id)

RECURSIVE InsertNodeRow(_, _)
InsertNodeRow(sorted, row) ==
    IF sorted = <<>> THEN <<row>>
    ELSE IF NodeRowLeq(Head(sorted), row)
    THEN <<Head(sorted)>> \o InsertNodeRow(Tail(sorted), row)
    ELSE <<row>> \o sorted

\* the rows written in the order they were appended
SortNodeRowsAsAppended(rows) == rows

\* df.sort_values(['timestamp', 'node_id'])
RECURSIVE SortNodeRows(_)
SortNodeRows(rows) ==
    IF rows = <<>> THEN <<>>
    ELSE InsertNodeRow(SortNodeRows(SubSeq(rows, 1, Len(rows) - 1)), rows[Len(rows)])

\* the node partition of a scenario: _export_nodes writes nothing when there
\* are no records; DatasetGenerator.generate writes the DataFrame it got,
\* which is empty when there are none
ExportNodes(pipeline, index, columns) ==
    LET all_records == AllRecords(index, columns)
    IN  IF pipeline = "leak_simulator" /\ all_records = <<>>
        THEN [written |-> FALSE, all_records |-> all_records, rows |-> <<>>]
        ELSE [written |-> TRUE, all_records |-> all_records,
              rows |-> SortNodeRows(all_records)]

InitExportNodes ==
    /\ call_args \in ExportNodesConfigs
    /\ call_pc = "call"
    /\ call_ret = Idle
    /\ gen_cfg = Idle /\ gen_pc = "idle" /\ n_scenarios = 0 /\ node_list = <<>>
    /\ scenarios = <<>> /\ scenario = NoScenario /\ create_args = NoArgs
    /\ BatchIdle
    /\ LabIdle

\* exporter._export_nodes(scenario_dir, scenario_id, nodes) after
\* _extract_results, or df.to_parquet after _extract_to_dataframe
ExportNodesCall ==
    /\ call_pc = "call"
    /\ call_args.kind = "export_nodes"
    /\ call_ret' = ExportNodes(call_args.pipeline, call_args.index, call_args.columns)
    /\ call_pc' = "returned"
    /\ UNCHANGED <<call_args, genVars, batchVars, labVars>>

NextExportNodes == ExportNodesCall

SpecExportNodes == InitExportNodes /\ [][NextExportNodes]_vars

\* C21: in every exported node partition the rows are in non-decreasing
\* (timestamp, node_id) order and no two rows share (node_id, timestamp),
\* whatever index and columns the Engine returned.
C21_NodeRowsSortedAndDistinct ==
    (call_pc = "returned" /\ call_args.kind = "export_nodes" /\ call_ret.written) =>
        LET rows == call_ret.rows
        IN  /\ \A k \in 1..(Len(rows) - 1) : NodeRowLeq(rows[k], rows[k + 1])
            /\ \A i, j \in 1..Len(rows) : i # j => rows[i] # rows[j]

\* a partition of two nodes and two report steps was written, and its rows
\* are not in the order in which the records were appended
C21_Witness ==
    /\ call_pc = "returned" /\ call_args.kind = "export_nodes" /\ call_ret.written
    /\ Len(call_ret.rows) = 4
    /\ call_ret.rows # call_ret.all_records
    /\ call_args.index = <<SecondsPerHour, 0>>

-----------------------------------------------------------------------------
(* The per-scenario subpath                                                  *)

DigitChars == <<"0", "1", "2", "3", "4", "5", "6", "7", "8", "9">>

\* str(n) for n >= 0
RECURSIVE DecimalStr(_)
DecimalStr(n) ==
    IF n < 10 THEN <<DigitChars[n + 1]>>
    ELSE DecimalStr(n \div 10) \o <<DigitChars[(n % 10) + 1]>>

\* the format specification 05d: zeros on the left up to five characters
RECURSIVE ZeroPad(_, _)
ZeroPad(s, width) == IF Len(s) >= width THEN s ELSE ZeroPad(<<"0">> \o s, width)

\* a subpath that does not carry the id
ScenarioDirNameShared(scenario_id) == <<"scenario_">>

\* f"scenario_{scenario_id:05d}"
ScenarioDirName(scenario_id) == <<"scenario_">> \o ZeroPad(DecimalStr(scenario_id), 5)

\* C22: the ids of the scenarios generated so far are 1..N in generation
\* order, in the coverage phase and in the random phase, so no two scenarios
\* of a batch have the same output subpath scenario_<id>.
C22_ScenarioIdsUnique ==
    /\ \A k \in 1..Len(scenarios) : scenarios[k][1] = k
    /\ \A i, j \in 1..Len(scenarios) :
           i # j => ScenarioDirName(scenarios[i][1]) # ScenarioDirName(scenarios[j][1])

\* generate returned a batch made by both phases
C22_Witness ==
    /\ gen_pc = "done"
    /\ gen_cfg.ensure_all_nodes
    /\ Len(gen_cfg.leak_nodes) >= 2
    /\ Len(scenarios) > Len(gen_cfg.leak_nodes)
    /\ ScenarioDirName(scenarios[Len(scenarios)][1]) = <<"scenario_", "0", "0", "0", "0", "3">>

-----------------------------------------------------------------------------
(* The scenario descriptor on its way through a worker                       *)

\* C23: for every scenario dispatched to a pool worker, the worker rebuilds
\* the scenario without raising, and the metadata record it returns equals
\* the record the coordinator dispatched (to_dict, the worker's
\* reconstruction and to_dict again is the identity).
C23_DescriptorRoundTrip ==
    b_cfg.parallel =>
        \A i \in 1..NJobs :
            Done(i) =>
                /\ joblog[i].step # "rebuild"
                /\ (HasOutcome(i) /\ "metadata" \in DOMAIN results[i]) =>
                       results[i].metadata = ToDict(b_cfg.scenarios[i])

-----------------------------------------------------------------------------
(* LeakScenarioGenerator._sample_log_uniform in floating point               *)

\* the significant bits of a float of the model (53 in a Python float)
MantissaBits == 4

\* a real number r is held as the integer r * Unit
Unit == 2^14

RECURSIVE Log2Floor(_)
Log2Floor(n) == IF n < 2 THEN 0 ELSE 1 + Log2Floor(n \div 2)

\* the float nearest to the real r: MantissaBits significant bits, ties to
\* the even mantissa
Fl(r) ==
    LET a   == IF r < 0 THEN 0 - r ELSE r
        e   == Log2Floor(a)
        q   == IF e >= MantissaBits THEN 2^(e - MantissaBits + 1) ELSE 1
        lo  == (a \div q) * q
        rem == a - lo
        up  == 2 * rem > q \/ (2 * rem = q /\ (a \div q) % 2 = 1)
        m   == IF up THEN lo + q ELSE lo
    IN  IF r < 0 THEN 0 - m ELSE m

\* the floats in [1, 8), the leak areas of the model
FloatValues ==
    { m * 2^e * (Unit \div 2^(MantissaBits - 1)) :
        m \in 2^(MantissaBits - 1)..(2^MantissaBits - 1), e \in 0..2 }

\* e^u for a real u >= 0, by its power series
RECURSIVE ExpTerms(_, _, _)
ExpTerms(u, term, n) ==
    IF term = 0 THEN 0 ELSE term + ExpTerms(u, (term * u) \div (n * Unit), n + 1)

ExpReal(u) == ExpTerms(u, Unit, 1)

\* ln(x) for a real x >= 1: the largest u with e^u <= x
RECURSIVE LnSearch(_, _, _)
LnSearch(x, lo, hi) ==
    IF hi - lo <= 1 THEN lo
    ELSE LET mid == (lo + hi) \div 2
         IN  IF ExpReal(mid) <= x THEN LnSearch(x, mid, hi) ELSE LnSearch(x, lo, mid)

LnReal(x) == LnSearch(x, 0, 3 * Unit)

\* np.log(x) and np.exp(u): the float nearest to the real value
NpLog(x) == Fl(LnReal(x))

NpExp(u) == Fl(ExpReal(u))

\* random(), in quarters
RandomQuarters == 0..3

\* random.uniform(a, b) is a + (b - a) * random(), every operation rounded
\* (the floats b - a here are multiples of 4 / Unit)
RandomUniform(a, b, quarters) == Fl(a + Fl((Fl(b - a) * quarters) \div 4))

\* _sample_log_uniform(min_val, max_val) with this draw
SampleLogUniform(min_val, max_val, quarters) ==
    IF min_val <= 0 \/ max_val <= 0
    THEN [raised |-> TRUE, value |-> 0]
    ELSE LET log_min == NpLog(min_val)
             log_max == NpLog(max_val)
             log_sample == RandomUniform(log_min, log_max, quarters)
         IN  [raised |-> FALSE, value |-> NpExp(log_sample)]

SampleConfigs ==
    { cfg \in [kind : {"sample"}, min_val : FloatValues \cup {0}, max_val : FloatValues] :
        cfg.min_val <= cfg.max_val }

InitSample ==
    /\ call_args \in SampleConfigs
    /\ call_pc = "call"
    /\ call_ret = Idle
    /\ gen_cfg = Idle /\ gen_pc = "idle" /\ n_scenarios = 0 /\ node_list = <<>>
    /\ scenarios = <<>> /\ scenario = NoScenario /\ create_args = NoArgs
    /\ BatchIdle
    /\ LabIdle

\* generator._sample_log_uniform(min_val, max_val)
SampleLogUniformCall ==
    /\ call_pc = "call"
    /\ call_args.kind = "sample"
    /\ \E quarters \in RandomQuarters :
          call_ret' = SampleLogUniform(call_args.min_val, call_args.max_val, quarters)
    /\ call_pc' = "returned"
    /\ UNCHANGED <<call_args, genVars, batchVars, labVars>>

NextSample == SampleLogUniformCall

SpecSample == InitSample /\ [][NextSample]_vars

\* C24: for every 0 < min <= max, every value _sample_log_uniform(min, max)
\* returns lies in [min, max].
C24_SampleWithinBounds ==
    (call_pc = "returned" /\ call_args.kind = "sample" /\ ~call_ret.raised) =>
        /\ call_args.min_val <= call_ret.value
        /\ call_ret.value <= call_args.max_val

-----------------------------------------------------------------------------
(* Ground truth and simulation                                               *)

\* the leak nodes a metadata record lists, which export_labels turns into
\* label rows
MetadataLeaks(metadata) ==
    IF "leak_nodes" \in DOMAIN metadata
    THEN Range(metadata.leak_nodes)
    ELSE {metadata.leak_node}

\* C25: for every scenario reported successful, every leak listed in its
\* metadata (and so in its label rows) was injected into the network the
\* Engine simulated.
C25_GroundTruthWasSimulated ==
    \A i \in 1..NJobs :
        (Succeeded(results[i]) /\ "metadata" \in DOMAIN results[i]) =>
            MetadataLeaks(results[i].metadata) \subseteq joblog[i].injected

-----------------------------------------------------------------------------
(* Sequential and parallel execution of generate_leak_scenarios.main        *)

\* what the batch has persisted for scenario scenario_id: its node and link
\* partitions, the metadata table and the labels table
Persisted(scenario_id) ==
    /\ File(ScenarioFile(scenario_id, "nodes"), "complete") \in files
    /\ File(ScenarioFile(scenario_id, "pipes"), "complete") \in files
    /\ File(<<"metadata.csv">>, "complete") \in files
    /\ File(<<"labels.csv">>, "complete") \in files

\* C26: when main has finished, with parallel.enabled true or false, every
\* successful scenario none of whose steps failed has its node and link
\* partitions written, a row in the metadata table and its rows in the
\* labels table.
C26_SequentialEqualsParallel ==
    (b_pc = "done" /\ b_cfg.entry = "main") =>
        \A i \in 1..NJobs :
            (Succeeded(results[i]) /\ joblog[i].step = "none") =>
                Persisted(results[i].scenario_id)

-----------------------------------------------------------------------------
(* What a successful worker has written                                      *)

\* C27: whenever leak_simulator.run_scenario_worker has returned
\* success = True for a scenario, the complete node partition of that
\* scenario exists under its directory.
C27_SuccessHasNodePartition ==
    (b_cfg.parallel /\ b_cfg.entry = "main") =>
        \A i \in 1..NJobs :
            Succeeded(results[i]) =>
                File(ScenarioFile(results[i].scenario_id, "nodes"), "complete") \in files

-----------------------------------------------------------------------------
(* The multi-leak branch of _create_scenario, with the leak areas            *)

\* the values _sample_log_uniform returns for a leak area, in units of the
\* smallest one
AreaDraws == {1, 2}

\* the draws of one pass of the loop over all_leak_nodes: the leak area, and
\* the start and the duration
LeakDraws(tr, simulation_duration_h) ==
    [leak_area : AreaDraws, window : LeakWindows(tr, simulation_duration_h)]

\* a LeakScenario whose primary area is the one drawn last
MultiLeakRecordLastArea(scenario_id, all_leak_nodes, ds) ==
    MultiLeakScenario(scenario_id, all_leak_nodes, [i \in 1..Len(ds) |-> ds[i].window])
    @@ [leak_area_m2 |-> ds[Len(ds)].leak_area,
        leak_areas_m2 |-> [i \in 1..Len(ds) |-> ds[i].leak_area]]

\* LeakScenario(...) of the multi-leak branch, area fields included
MultiLeakRecord(scenario_id, all_leak_nodes, ds) ==
    MultiLeakScenario(scenario_id, all_leak_nodes, [i \in 1..Len(ds) |-> ds[i].window])
    @@ [leak_area_m2 |-> ds[1].leak_area,
        leak_areas_m2 |-> [i \in 1..Len(ds) |-> ds[i].leak_area]]

\* the else branch of _create_scenario, over every random draw
CreateMultiLeak(cfg, scenario_id, leak_node) ==
    LET available_nodes == AvailableNodes(cfg.leak_nodes, leak_node)
        n_additional == NAdditional(cfg.leaks_per_scenario, available_nodes)
    IN  IF n_additional > 0 /\ SampleRaises(available_nodes, n_additional)
        THEN {[raised |-> TRUE, scenario |-> NoScenario]}
        ELSE { [raised |-> FALSE,
                scenario |-> MultiLeakRecord(scenario_id, <<leak_node>> \o additional_nodes, ds)] :
                 additional_nodes \in (IF n_additional > 0
                                       THEN Sample(available_nodes, n_additional)
                                       ELSE {<<>>}),
                 ds \in [1..(1 + Max(n_additional, 0)) ->
                           LeakDraws(cfg.leak_time_range, cfg.simulation_duration_h)] }

\* generators whose leaks_per_scenario is not 1: zero and negative included
MultiLeakConfigs ==
    [kind : {"create_multi"},
     leak_nodes : LeakNodeLists \ {<<>>},
     leaks_per_scenario : ((-1)..MaxLeaksPerScenario) \ {1},
     leak_time_range : {BatchTimeRange},
     simulation_duration_h : SimulationDurations,
     primary : 1..3]

InitMultiLeak ==
    /\ call_args \in {a \in MultiLeakConfigs : a.primary <= Len(a.leak_nodes)}
    /\ call_pc = "call"
    /\ call_ret = Idle
    /\ gen_cfg = Idle /\ gen_pc = "idle" /\ n_scenarios = 0 /\ node_list = <<>>
    /\ scenarios = <<>> /\ scenario = NoScenario /\ create_args = NoArgs
    /\ BatchIdle
    /\ LabIdle

\* self._create_scenario(1, leak_node, simulation_duration_h) with
\* leaks_per_scenario != 1
CreateMultiLeakCall ==
    /\ call_pc = "call"
    /\ call_args.kind = "create_multi"
    /\ call_ret' \in CreateMultiLeak(call_args, 1, call_args.leak_nodes[call_args.primary])
    /\ call_pc' = "returned"
    /\ UNCHANGED <<call_args, genVars, batchVars, labVars>>

NextMultiLeak == CreateMultiLeakCall

SpecMultiLeak == InitMultiLeak /\ [][NextMultiLeak]_vars

\* C28: every scenario built in the multi-leak path (leaks_per_scenario
\* other than 1, zero and negative values included) has five lists of the
\* same length >= 1, leak_end_times_s[i] = leak_start_times_s[i] +
\* leak_durations_s[i] for every i, and primary fields equal to index 0 of
\* the lists.
C28_MultiLeakConsistent ==
    (call_pc = "returned" /\ call_args.kind = "create_multi") =>
        /\ ~call_ret.raised
        /\ LET sc == call_ret.scenario
               n == Len(sc.leak_nodes)
           IN  /\ n >= 1
               /\ Len(sc.leak_areas_m2) = n
               /\ Len(sc.leak_start_times_s) = n
               /\ Len(sc.leak_durations_s) = n
               /\ Len(sc.leak_end_times_s) = n
               /\ \A i \in 1..n :
                      sc.leak_end_times_s[i] = sc.leak_start_times_s[i] + sc.leak_durations_s[i]
               /\ sc.leak_node = sc.leak_nodes[1]
               /\ sc.leak_area_m2 = sc.leak_areas_m2[1]
               /\ sc.start_time_s = sc.leak_start_times_s[1]
               /\ sc.duration_s = sc.leak_durations_s[1]
               /\ sc.end_time_s = sc.leak_end_times_s[1]

\* a generator with leaks_per_scenario = 0 and other nodes to choose from
\* returned a scenario with the primary leak only
C28_Witness ==
    /\ call_pc = "returned" /\ call_args.kind = "create_multi"
    /\ call_args.leaks_per_scenario = 0
    /\ Len(call_args.leak_nodes) = 3
    /\ ~call_ret.raised
    /\ Len(call_ret.scenario.leak_nodes) = 1
    /\ call_ret.scenario.leak_areas_m2 = <<2>>

-----------------------------------------------------------------------------
(* Noise of zero magnitude                                                   *)

\* C29: with noise enabled and pressure_sigma = flow_sigma = 0, for every
\* record of every node and link the output pressure, demand and flow equal
\* the input values and their _raw copies, negative demand and negative
\* pressure included, and head, leak_demand and timestamp are passed
\* through unchanged.
C29_ZeroNoiseChangesNothing ==
    (/\ call_pc = "returned" /\ call_args.kind = "noise" /\ call_args.enabled
     /\ call_args.pressure_sigma = 0 /\ call_args.flow_sigma = 0) =>
        LET input == call_args.simulation_results
            output == call_ret.returned
        IN  /\ \A n \in DOMAIN input.nodes : \A k \in 1..Len(input.nodes[n]) :
                   /\ output.nodes[n][k].pressure = input.nodes[n][k].pressure
                   /\ output.nodes[n][k].pressure = output.nodes[n][k].pressure_raw
                   /\ output.nodes[n][k].demand = input.nodes[n][k].demand
                   /\ output.nodes[n][k].demand = output.nodes[n][k].demand_raw
                   /\ output.nodes[n][k].head = input.nodes[n][k].head
                   /\ output.nodes[n][k].leak_demand = input.nodes[n][k].leak_demand
                   /\ output.nodes[n][k].timestamp = input.nodes[n][k].timestamp
            /\ \A l \in DOMAIN input.pipes : \A k \in 1..Len(input.pipes[l]) :
                   /\ output.pipes[l][k].flow = input.pipes[l][k].flow
                   /\ output.pipes[l][k].flow = output.pipes[l][k].flow_raw
                   /\ output.pipes[l][k].timestamp = input.pipes[l][k].timestamp

-----------------------------------------------------------------------------
(* The temporary files of ModelLoader                                        *)

\* largest number of create_model_copy calls on one loader
MaxClones == 4

\* the k-th temporary file the process creates
TmpFile(k) == <<"tmp", k>>

\* what the environment can make fail in _save_model_bytes: mkstemp,
\* write_inpfile, or every os.unlink attempt with PermissionError
SaveFaults == {"none", "mkstemp", "write", "unlink_denied"}

\* what the environment can make fail in create_model_copy: creating the
\* temporary file, writing the bytes to it, or the Engine parsing it
CloneFaults == {"none", "create", "write", "parse"}

\* _save_model_bytes(): model_bytes is set or None, and the temporary files
\* that exist when it returns.  The inner except unlinks the file; after
\* three PermissionErrors a warning is logged and the file stays.
SaveModelBytes(tmp_dir, created, fault) ==
    IF fault = "mkstemp"
    THEN [model_bytes |-> FALSE, tmp_dir |-> tmp_dir, created |-> created]
    ELSE IF fault = "write"
    THEN [model_bytes |-> FALSE, tmp_dir |-> tmp_dir, created |-> created + 1]
    ELSE IF fault = "unlink_denied"
    THEN [model_bytes |-> TRUE, tmp_dir |-> tmp_dir \cup {TmpFile(created + 1)},
          created |-> created + 1]
    ELSE [model_bytes |-> TRUE, tmp_dir |-> tmp_dir, created |-> created + 1]

\* create_model_copy(): a network or None, and the temporary files that
\* exist when it returns.  NamedTemporaryFile(delete=False) leaves the file
\* in place when the with block is left, and os.unlink is reached only after
\* WaterNetworkModel(tmp_path) has returned.
CreateModelCopyFiles(model_bytes, tmp_dir, created, fault) ==
    IF ~model_bytes
    THEN [wn_copy |-> fault # "parse", tmp_dir |-> tmp_dir, created |-> created]
    ELSE IF fault = "create"
    THEN [wn_copy |-> FALSE, tmp_dir |-> tmp_dir, created |-> created]
    ELSE IF fault \in {"write", "parse"}
    THEN [wn_copy |-> FALSE, tmp_dir |-> tmp_dir \cup {TmpFile(created + 1)},
          created |-> created + 1]
    ELSE [wn_copy |-> TRUE, tmp_dir |-> tmp_dir, created |-> created + 1]

InitTmp ==
    /\ call_args = [kind |-> "tmp"]
    /\ call_pc = "call"
    /\ call_ret = [model_bytes |-> FALSE, tmp_dir |-> {}, created |-> 0,
                   clones |-> 0, wn_copy |-> FALSE]
    /\ gen_cfg = Idle /\ gen_pc = "idle" /\ n_scenarios = 0 /\ node_list = <<>>
    /\ scenarios = <<>> /\ scenario = NoScenario /\ create_args = NoArgs
    /\ BatchIdle
    /\ LabIdle

\* load_and_validate() of a valid source file: self._save_model_bytes()
SaveModelBytesCall ==
    /\ call_pc = "call"
    /\ call_args.kind = "tmp"
    /\ \E fault \in SaveFaults :
          LET r == SaveModelBytes(call_ret.tmp_dir, call_ret.created, fault)
          IN  call_ret' = [call_ret EXCEPT !.model_bytes = r.model_bytes,
                                           !.tmp_dir = r.tmp_dir,
                                           !.created = r.created]
    /\ call_pc' = "loaded"
    /\ UNCHANGED <<call_args, genVars, batchVars, labVars>>

\* model_loader.create_model_copy(), once per scenario
CreateModelCopyCall ==
    /\ call_pc = "loaded"
    /\ call_args.kind = "tmp"
    /\ call_ret.clones < MaxClones
    /\ \E fault \in CloneFaults :
          LET r == CreateModelCopyFiles(call_ret.model_bytes, call_ret.tmp_dir,
                                        call_ret.created, fault)
          IN  call_ret' = [call_ret EXCEPT !.wn_copy = r.wn_copy,
                                           !.tmp_dir = r.tmp_dir,
                                           !.created = r.created,
                                           !.clones = @ + 1]
    /\ UNCHANGED <<call_args, call_pc, genVars, batchVars, labVars>>

NextTmp == SaveModelBytesCall \/ CreateModelCopyCall

SpecTmp == InitTmp /\ [][NextTmp]_vars

\* C30: whenever load or create_model_copy has returned, with a network or
\* with None, every temporary file it created has been deleted.
C30_NoTemporaryFileLeft ==
    (call_args.kind = "tmp" /\ call_pc = "loaded") => call_ret.tmp_dir = {}

====
